---- MODULE Spec2Model ----
(***************************************************************************)
(* pigment-db: three durable in-memory collections (key->value, key->set,  *)
(* key->sorted map) above one write-ahead log.                             *)
(*                                                                         *)
(* Byte strings are sequences over 0..255.  Multi-byte integers are kept   *)
(* as the little-endian byte arrays the program writes (to_ne_bytes on a   *)
(* little-endian host); a decoded u32 is a TLC integer, saturated at       *)
(* UsizeSat when its top bit is set (every slice of the model is far       *)
(* shorter, so every bounds check decides the same way).                   *)
(***************************************************************************)
EXTENDS Integers, Sequences, FiniteSets, TLC

VARIABLES
    kv_store,    \* DurableKeyValueStore.store : key -> value
    kv_wal,      \* DurableKeyValueStore.wal   : WalState [offset, writer]
    kv_last,     \* the last KV operation and what it returned
    kv_ops       \* number of KV operations issued so far

kvVars == <<kv_store, kv_wal, kv_last, kv_ops>>

VARIABLES
    set_store,   \* DurableKeySetStore.store : key -> set of elements
    set_wal,     \* DurableKeySetStore.wal   : WalState [offset, writer]
    set_last,    \* the last Key-Set operation, what it returned, the callback it ran
    set_ops      \* number of Key-Set operations issued so far

setVars == <<set_store, set_wal, set_last, set_ops>>

VARIABLES
    map_store,   \* DurableKeyMapStore.store : key -> (SearchKey -> value)
    map_wal,     \* DurableKeyMapStore.wal   : WalState [offset, writer]
    map_last,    \* the last Key-SortedMap operation, what it returned, its callback
    map_ops      \* number of Key-SortedMap operations issued so far

mapVars == <<map_store, map_wal, map_last, map_ops>>

VARIABLES
    engine       \* the collection store a run of SpecColl exercises

VARIABLES
    th,          \* thread -> its call: operation, argument, position, result
    shard,       \* the thread holding the DashMap shard of ConcKey for writing, or 0
    poisoned,    \* the RwLock around the WAL state was poisoned by a panicking writer
    wal_lock,    \* the thread holding that RwLock for writing, or 0
    tick         \* thread -> a bit that flips whenever the thread takes a step

concVars == <<th, shard, poisoned, wal_lock, tick>>

VARIABLES
    fs,          \* the store directory: the WAL file and the dotted temp file
    proc,        \* the process running init_new: position, store, WAL offset
    original,    \* what the WAL of the directory held before the first init_new
    old_wal,     \* the bytes of that WAL
    crashes      \* number of times the process has died so far

recVars == <<fs, proc, original, old_wal, crashes>>

VARIABLES
    wal,         \* a WalStorage on its own: WalState [offset, writer]
    wal_sunk,    \* u64: bytes appended to its sink before the ones wal.writer keeps
    wal_ops,     \* number of store_*_event calls issued on it so far
    log          \* the bytes handed to the readers, and how they were damaged

logVars == <<wal, wal_sunk, wal_ops, log>>

VARIABLES
    key_cmp      \* the last two SearchKeys compared and the Ordering cmp gave

vars == <<kvVars, setVars, mapVars, engine, concVars, recVars, logVars, key_cmp>>

-----------------------------------------------------------------------------
(* Bounds of the model *)

MaxKvOps == 3
MaxSetOps == 3
MaxCollOps == 2
NThreads == 2
MaxCrashes == 2
MaxWalOps == 2

-----------------------------------------------------------------------------
(* Byte-level helpers *)

\* the largest u32 whose top bit is clear
UsizeSat == 16777216 * 127 + 16777215

u32_to_ne_bytes(n) ==
    <<n % 256, (n \div 256) % 256, (n \div 65536) % 256, (n \div 16777216) % 256>>

u32_from_ne_bytes(b) ==
    IF b[4] >= 128 THEN UsizeSat
    ELSE b[1] + 256 * b[2] + 65536 * b[3] + 16777216 * b[4]

U32Zero == <<0, 0, 0, 0>>

\* a + b on u32 byte arrays: the wrapped sum (wrapping_add, what `+` does
\* without overflow checks) and whether the true sum exceeds 2^32 - 1 (where
\* `+` panics with overflow checks)
RECURSIVE U32AddFrom(_, _, _, _)
U32AddFrom(a, b, i, carry) ==
    IF i > 4 THEN [sum |-> <<>>, overflow |-> carry = 1]
    ELSE LET t    == a[i] + b[i] + carry
             rest == U32AddFrom(a, b, i + 1, t \div 256)
         IN  [sum |-> <<t % 256>> \o rest.sum, overflow |-> rest.overflow]

U32Add(a, b) == U32AddFrom(a, b, 1, 0)

\* a length (usize) written by bincode as a fixed-width little-endian u64
u64_len_to_bytes(n) == u32_to_ne_bytes(n) \o <<0, 0, 0, 0>>

u64_len_from_bytes(b) ==
    IF b[5] # 0 \/ b[6] # 0 \/ b[7] # 0 \/ b[8] # 0 THEN UsizeSat
    ELSE u32_from_ne_bytes(SubSeq(b, 1, 4))

\* bytes[from..to) in Rust's zero-based half-open indexing
Slice(bytes, from, to) == SubSeq(bytes, from + 1, to)

-----------------------------------------------------------------------------
(* CRC-32 (IEEE), as crc32fast computes it; the 32-bit state is kept as    *)
(* four little-endian bytes.                                               *)

RECURSIVE XorBits(_, _, _)
XorBits(a, b, n) ==
    IF n = 0 THEN 0
    ELSE ((a + b) % 2) + 2 * XorBits(a \div 2, b \div 2, n - 1)

Xor4 == [i \in 0..255 |-> XorBits(i \div 16, i % 16, 4)]

Xor8(a, b) ==
    Xor4[(a % 16) * 16 + (b % 16)] + 16 * Xor4[(a \div 16) * 16 + (b \div 16)]

XorWord(a, b) == <<Xor8(a[1], b[1]), Xor8(a[2], b[2]), Xor8(a[3], b[3]), Xor8(a[4], b[4])>>

\* 0xEDB88320
CrcPoly == <<32, 131, 184, 237>>

ShiftRight1(w) ==
    <<(w[1] \div 2) + 128 * (w[2] % 2), (w[2] \div 2) + 128 * (w[3] % 2),
      (w[3] \div 2) + 128 * (w[4] % 2), w[4] \div 2>>

RECURSIVE CrcStep(_, _)
CrcStep(c, n) ==
    IF n = 0 THEN c
    ELSE CrcStep(IF c[1] % 2 = 1 THEN XorWord(ShiftRight1(c), CrcPoly)
                 ELSE ShiftRight1(c), n - 1)

CrcTable == [b \in 0..255 |-> CrcStep(<<b, 0, 0, 0>>, 8)]

\* (the test on c[4] is always true: it makes TLC evaluate c at every byte)
RECURSIVE CrcUpdate(_, _, _)
CrcUpdate(c, bytes, i) ==
    IF c[4] >= 0 /\ i > Len(bytes) THEN c
    ELSE CrcUpdate(XorWord(CrcTable[Xor8(c[1], bytes[i])], <<c[2], c[3], c[4], 0>>),
                   bytes, i + 1)

crc(bytes) ==
    XorWord(CrcUpdate(<<255, 255, 255, 255>>, bytes, 1), <<255, 255, 255, 255>>)


-----------------------------------------------------------------------------
(* WAL record codec (wal/model/mod.rs) *)

ACT_TYPE_FIELD_LEN == 1
CRC32_FIELD_LEN == 4
DATA_SIZE_FIELD_LEN == 4
BLOCK_START_OFFSET_LEN == 4
FIXED_BLOCK_LEN ==
    ACT_TYPE_FIELD_LEN + CRC32_FIELD_LEN + DATA_SIZE_FIELD_LEN + BLOCK_START_OFFSET_LEN

DELETE_ACT == 0
PUT_ACT == 1
SET_APPEND_ACT == 2
SET_REMOVE_ACT == 3

KeyValueData(key, value) == [key |-> key, value |-> value]

\* bincode::serialize(&KeyValueData): both fields are serde_bytes, each a
\* u64 length followed by the bytes
bincode_serialize(kv) ==
    u64_len_to_bytes(Len(kv.key)) \o kv.key \o u64_len_to_bytes(Len(kv.value)) \o kv.value

\* bincode::deserialize::<KeyValueData>: Err when a length or its bytes run
\* past the end of the input; trailing bytes are allowed
bincode_deserialize(data) ==
    IF Len(data) < 8 THEN [ok |-> FALSE]
    ELSE LET klen == u64_len_from_bytes(SubSeq(data, 1, 8)) IN
         IF klen > Len(data) - 8 THEN [ok |-> FALSE]
         ELSE IF Len(data) - 8 - klen < 8 THEN [ok |-> FALSE]
         ELSE LET vlen == u64_len_from_bytes(SubSeq(data, 9 + klen, 16 + klen)) IN
              IF vlen > Len(data) - 16 - klen THEN [ok |-> FALSE]
              ELSE [ok |-> TRUE,
                    key |-> SubSeq(data, 9, 8 + klen),
                    value |-> SubSeq(data, 17 + klen, 16 + klen + vlen)]

StoredAction(act_type, crc_, data_size, data, start_offset) ==
    [act_type |-> act_type, crc |-> crc_, data_size |-> data_size,
     data |-> data, start_offset |-> start_offset]

put_action(offset, key_value) ==
    LET data == bincode_serialize(key_value)
    IN  StoredAction(PUT_ACT, crc(data), Len(data), data, offset)

delete_action(offset, key) ==
    StoredAction(DELETE_ACT, crc(key), Len(key), key, offset)

append_to_set(offset, key_value) ==
    LET data == bincode_serialize(key_value)
    IN  StoredAction(SET_APPEND_ACT, crc(data), Len(data), data, offset)

remove_from_set(offset, key_value) ==
    LET data == bincode_serialize(key_value)
    IN  StoredAction(SET_REMOVE_ACT, crc(data), Len(data), data, offset)

-----------------------------------------------------------------------------
(* WAL writer (wal/mod.rs) *)

WalState(offset, writer) == [offset |-> offset, writer |-> writer]

new_vec_based == WalState(U32Zero, <<>>)

\* the five file.write calls of write(), in order: the three before the
\* data, then the data and the trailer
RecordHead(a) == <<a.act_type>> \o a.crc \o u32_to_ne_bytes(a.data_size)

RecordTail(a) == a.data \o a.start_offset

RecordBytes(a) == RecordHead(a) \o RecordTail(a)

\* a writer that starts its file over with every record
write_truncating(file, action) == RecordBytes(action)

write(file, action) == file \o RecordBytes(action)

\* start_offset + data_size + fixed_block_len on u32, left to right: the
\* offset without overflow checks, and whether a build with them panics
increment_offset_checked(action) ==
    LET a == U32Add(action.start_offset, u32_to_ne_bytes(action.data_size))
        b == U32Add(a.sum, u32_to_ne_bytes(FIXED_BLOCK_LEN))
    IN  [sum |-> b.sum, overflow |-> a.overflow \/ b.overflow]

increment_offset(action) == increment_offset_checked(action).sum

WalAppend(w, action) == WalState(increment_offset(action), write(w.writer, action))

store_put_event(w, key, value) ==
    WalAppend(w, put_action(w.offset, KeyValueData(key, value)))

store_delete_event(w, key) ==
    WalAppend(w, delete_action(w.offset, key))

store_append_to_set_event(w, key, set_key) ==
    WalAppend(w, append_to_set(w.offset, KeyValueData(key, set_key)))

store_remove_from_set_event(w, key, value) ==
    WalAppend(w, remove_from_set(w.offset, KeyValueData(key, value)))

-----------------------------------------------------------------------------
(* Maps as functions over a finite set of byte strings *)

EmptyMap == <<>>

MapInsert(m, k, v) == [x \in DOMAIN m \cup {k} |-> IF x = k THEN v ELSE m[x]]

MapRemove(m, k) == [x \in DOMAIN m \ {k} |-> m[x]]

None == <<"None">>
Some(v) == <<"Some", v>>

-----------------------------------------------------------------------------
(* WAL reader (wal/mod.rs) *)

\* build_action: five slices in a row; a slice that runs past the end of
\* the bytes panics (ok = FALSE)
build_action(offset, bytes) ==
    LET n == Len(bytes) IN
    IF offset + ACT_TYPE_FIELD_LEN + CRC32_FIELD_LEN + DATA_SIZE_FIELD_LEN > n
    THEN [ok |-> FALSE]
    ELSE
    LET act_type  == bytes[offset + 1]
        o1        == offset + ACT_TYPE_FIELD_LEN
        crc_      == Slice(bytes, o1, o1 + CRC32_FIELD_LEN)
        o2        == o1 + CRC32_FIELD_LEN
        data_size == u32_from_ne_bytes(Slice(bytes, o2, o2 + DATA_SIZE_FIELD_LEN))
        o3        == o2 + DATA_SIZE_FIELD_LEN
    IN  IF data_size > n - o3 THEN [ok |-> FALSE]
        ELSE
        LET data == Slice(bytes, o3, o3 + data_size)
            o4   == o3 + data_size
        IN  IF o4 + BLOCK_START_OFFSET_LEN > n THEN [ok |-> FALSE]
            ELSE [ok |-> TRUE,
                  action |-> StoredAction(act_type, crc_, data_size, data,
                      Slice(bytes, o4, o4 + BLOCK_START_OFFSET_LEN)),
                  offset |-> o4 + BLOCK_START_OFFSET_LEN]

valid_crc(expected_crc, data) == crc(data) = expected_crc

Panicked == [kind |-> "Panic"]
Returned(m) == [kind |-> "Ok", map |-> m]

\* read_forward's loop with the comparison of the two crcs left out
RECURSIVE read_forward_loop_no_crc(_, _, _)
read_forward_loop_no_crc(bytes, offset, result) ==
    IF ~(offset < Len(bytes)) THEN Returned(result)
    ELSE
    LET b == build_action(offset, bytes) IN
    IF ~b.ok THEN Panicked
    ELSE IF b.action.act_type = DELETE_ACT
         THEN read_forward_loop_no_crc(bytes, b.offset, MapRemove(result, b.action.data))
    ELSE IF b.action.act_type = PUT_ACT
         THEN LET d == bincode_deserialize(b.action.data) IN
              IF ~d.ok THEN Panicked
              ELSE read_forward_loop_no_crc(bytes, b.offset,
                       MapInsert(result, d.key, d.value))
    ELSE Panicked

RECURSIVE read_forward_loop(_, _, _)
read_forward_loop(bytes, offset, result) ==
    IF ~(offset < Len(bytes)) THEN Returned(result)
    ELSE
    LET b == build_action(offset, bytes) IN
    IF ~b.ok THEN Panicked
    ELSE IF crc(b.action.data) # b.action.crc THEN Panicked
    ELSE IF b.action.act_type = DELETE_ACT
         THEN read_forward_loop(bytes, b.offset, MapRemove(result, b.action.data))
    ELSE IF b.action.act_type = PUT_ACT
         THEN LET d == bincode_deserialize(b.action.data) IN
              IF ~d.ok THEN Panicked
              ELSE read_forward_loop(bytes, b.offset, MapInsert(result, d.key, d.value))
    ELSE Panicked

read_forward(bytes) ==
    IF bytes = <<>> THEN Returned(EmptyMap) ELSE read_forward_loop(bytes, 0, EmptyMap)

\* prev_block_start_offset: bytes[idx - 4..idx]; idx < 4 underflows (a panic
\* with overflow checks, a wrapped start and a slice panic without); the
\* slice always has four bytes, so the Err arm is never taken
prev_block_start_offset(idx, bytes) ==
    IF idx < BLOCK_START_OFFSET_LEN \/ idx > Len(bytes) THEN [kind |-> "Panic"]
    ELSE [kind |-> "Ok",
          val |-> u32_from_ne_bytes(Slice(bytes, idx - BLOCK_START_OFFSET_LEN, idx))]

\* update_backward_reading_map with the removed_keys test of the PUT arm left out
update_backward_reading_map_no_removed(stored_action, map, removed_keys) ==
    IF stored_action.act_type = DELETE_ACT
    THEN LET key == stored_action.data IN
         IF key \notin DOMAIN map
         THEN [panic |-> FALSE, map |-> map, removed_keys |-> removed_keys \cup {key}]
         ELSE [panic |-> FALSE, map |-> map, removed_keys |-> removed_keys]
    ELSE IF stored_action.act_type = PUT_ACT
    THEN LET d == bincode_deserialize(stored_action.data) IN
         IF ~d.ok THEN [panic |-> TRUE]
         ELSE IF d.key \notin DOMAIN map
              THEN [panic |-> FALSE, map |-> MapInsert(map, d.key, d.value),
                    removed_keys |-> removed_keys]
              ELSE [panic |-> FALSE, map |-> map, removed_keys |-> removed_keys]
    ELSE [panic |-> TRUE]

update_backward_reading_map(stored_action, map, removed_keys) ==
    IF stored_action.act_type = DELETE_ACT
    THEN LET key == stored_action.data IN
         IF key \notin DOMAIN map
         THEN IF ~valid_crc(stored_action.crc, stored_action.data)
              THEN [panic |-> TRUE]
              ELSE [panic |-> FALSE, map |-> map, removed_keys |-> removed_keys \cup {key}]
         ELSE [panic |-> FALSE, map |-> map, removed_keys |-> removed_keys]
    ELSE IF stored_action.act_type = PUT_ACT
    THEN LET d == bincode_deserialize(stored_action.data) IN
         IF ~d.ok THEN [panic |-> TRUE]
         ELSE IF d.key \notin DOMAIN map /\ d.key \notin removed_keys
              THEN IF ~valid_crc(stored_action.crc, stored_action.data)
                   THEN [panic |-> TRUE]
                   ELSE [panic |-> FALSE, map |-> MapInsert(map, d.key, d.value),
                         removed_keys |-> removed_keys]
              ELSE [panic |-> FALSE, map |-> map, removed_keys |-> removed_keys]
    ELSE [panic |-> TRUE]

\* One round of read_backward: the record at `offset` is parsed and applied;
\* the scan ends at the record whose start_offset is 0.  `seen` holds the
\* offsets of the rounds so far: a round at one of them repeats what
\* followed it, with every key already decided, for ever.
RECURSIVE read_backward_loop(_, _, _, _, _)
read_backward_loop(bytes, offset, result, removed_keys, seen) ==
    IF offset \in seen THEN [kind |-> "Diverges"]
    ELSE
    LET b == build_action(offset, bytes) IN
    IF offset >= Len(bytes) \/ ~b.ok THEN Panicked
    ELSE
    LET u == update_backward_reading_map(b.action, result, removed_keys) IN
    IF u.panic THEN Panicked
    ELSE IF b.action.start_offset = U32Zero THEN Returned(u.map)
    ELSE LET p == prev_block_start_offset(u32_from_ne_bytes(b.action.start_offset), bytes) IN
         IF p.kind = "Panic" THEN Panicked
         ELSE read_backward_loop(bytes, p.val, u.map, u.removed_keys, seen \cup {offset})

read_backward(bytes) ==
    LET p == prev_block_start_offset(Len(bytes), bytes) IN
    IF p.kind = "Panic" THEN Panicked
    ELSE read_backward_loop(bytes, p.val, EmptyMap, {}, {})

\* collect: read_backward never returns Err (see prev_block_start_offset),
\* so the forward fallback is kept only for that arm
collect(bytes) ==
    LET r == read_backward(bytes) IN
    IF r.kind = "Err" THEN read_forward(bytes) ELSE r

-----------------------------------------------------------------------------
(* u64 numbers, kept as the eight little-endian bytes of to_ne_bytes *)

U64Zero == <<0, 0, 0, 0, 0, 0, 0, 0>>
U64One  == <<1, 0, 0, 0, 0, 0, 0, 0>>
U64Max  == <<255, 255, 255, 255, 255, 255, 255, 255>>

\* <[u8; 8]>::try_from(slice): Ok exactly when the slice has eight bytes
IsU64(bytes) == Len(bytes) = 8

RECURSIVE U64AddFrom(_, _, _, _)
U64AddFrom(a, b, i, carry) ==
    IF i > 8 THEN [sum |-> <<>>, overflow |-> carry = 1]
    ELSE LET t    == a[i] + b[i] + carry
             rest == U64AddFrom(a, b, i + 1, t \div 256)
         IN  [sum |-> <<t % 256>> \o rest.sum, overflow |-> rest.overflow]

\* a + b on u64: the wrapped sum and whether the true sum exceeds 2^64 - 1
U64Add(a, b) == U64AddFrom(a, b, 1, 0)

RECURSIVE U64SubFrom(_, _, _, _)
U64SubFrom(a, b, i, borrow) ==
    IF i > 8 THEN <<>>
    ELSE LET t == a[i] - b[i] - borrow
         IN  <<t % 256>> \o U64SubFrom(a, b, i + 1, IF t < 0 THEN 1 ELSE 0)

U64Sub(a, b) == U64SubFrom(a, b, 1, 0)

RECURSIVE U64GeFrom(_, _, _)
U64GeFrom(a, b, i) ==
    IF i = 0 THEN TRUE
    ELSE IF a[i] # b[i] THEN a[i] > b[i]
    ELSE U64GeFrom(a, b, i - 1)

\* a >= b on u64
U64Ge(a, b) == U64GeFrom(a, b, 8)

-----------------------------------------------------------------------------
(* Inputs of the KV store *)

KvKeys == {<<>>, <<97>>}
KvVals == {<<120>>}
KvIncrements == {U64One}
KvDecrements == {U64One, <<2, 0, 0, 0, 0, 0, 0, 0>>}
KvNumbers == {U64Max, <<0, 1, 0, 0, 0, 0, 0, 0>>}

\* callbacks handed to compute: "bump" is the closure of test_compute
\* (absent -> 0, present -> first byte + 1)
KvFuncs == {"bump"}

ApplyFunc(func, arg) ==
    IF arg = None THEN <<0>>
    ELSE LET v == arg[2] IN
         IF v = <<>> THEN <<0>> ELSE <<(v[1] + 1) % 256>> \o Tail(v)

-----------------------------------------------------------------------------
(* KV store (key_value_store.rs), one caller *)

KvGet(store, key) == IF key \in DOMAIN store THEN Some(store[key]) ELSE None

KvLast(op, key, ret) == [op |-> op, key |-> key, ret |-> ret]

KvInit ==
    /\ kv_store = EmptyMap
    /\ kv_wal = new_vec_based
    /\ kv_last = KvLast("new_vec_based", <<>>, <<"Unit">>)
    /\ kv_ops = 0

put(key, val) ==
    /\ kv_wal' = store_put_event(kv_wal, key, val)
    /\ kv_store' = MapInsert(kv_store, key, val)
    /\ kv_last' = KvLast("put", key, <<"Unit">>)

compute(key, func) ==
    LET new_val == ApplyFunc(func, KvGet(kv_store, key)) IN
    /\ kv_wal' = store_put_event(kv_wal, key, new_val)
    /\ kv_store' = MapInsert(kv_store, key, new_val)
    /\ kv_last' = KvLast("compute", key, <<"Unit">>)

\* increment_or_init that starts afresh on a value that is not eight bytes
increment_or_init_restart(key, increment_by, overflow_checks) ==
    IF key \in DOMAIN kv_store /\ IsU64(kv_store[key])
    THEN LET add == U64Add(kv_store[key], increment_by) IN
         IF add.overflow /\ overflow_checks
         THEN /\ UNCHANGED <<kv_wal, kv_store>>
              /\ kv_last' = KvLast("increment_or_init", key, <<"Panic">>)
         ELSE /\ kv_wal' = store_put_event(kv_wal, key, add.sum)
              /\ kv_store' = MapInsert(kv_store, key, add.sum)
              /\ kv_last' = KvLast("increment_or_init", key, <<"Ok", add.sum>>)
    ELSE /\ kv_wal' = store_put_event(kv_wal, key, increment_by)
         /\ kv_store' = MapInsert(kv_store, key, increment_by)
         /\ kv_last' = KvLast("increment_or_init", key, <<"Ok", increment_by>>)

\* cur_num + increment_by overflows u64: a panic when the build checks
\* overflow, the wrapped sum when it does not
increment_or_init(key, increment_by, overflow_checks) ==
    IF key \in DOMAIN kv_store
    THEN IF ~IsU64(kv_store[key])
         THEN /\ UNCHANGED <<kv_wal, kv_store>>
              /\ kv_last' = KvLast("increment_or_init", key, <<"Err">>)
         ELSE LET add == U64Add(kv_store[key], increment_by) IN
              IF add.overflow /\ overflow_checks
              THEN /\ UNCHANGED <<kv_wal, kv_store>>
                   /\ kv_last' = KvLast("increment_or_init", key, <<"Panic">>)
              ELSE /\ kv_wal' = store_put_event(kv_wal, key, add.sum)
                   /\ kv_store' = MapInsert(kv_store, key, add.sum)
                   /\ kv_last' = KvLast("increment_or_init", key, <<"Ok", add.sum>>)
    ELSE /\ kv_wal' = store_put_event(kv_wal, key, increment_by)
         /\ kv_store' = MapInsert(kv_store, key, increment_by)
         /\ kv_last' = KvLast("increment_or_init", key, <<"Ok", increment_by>>)

\* decrement that stores 0 under an absent key
decrement_creates(key, decrement_by) ==
    IF key \in DOMAIN kv_store
    THEN IF ~IsU64(kv_store[key])
         THEN /\ UNCHANGED <<kv_wal, kv_store>>
              /\ kv_last' = KvLast("decrement", key, <<"Some", <<"Err">>>>)
         ELSE LET cur_num == kv_store[key]
                  new_num == IF U64Ge(decrement_by, cur_num) THEN U64Zero
                             ELSE U64Sub(cur_num, decrement_by)
              IN  /\ kv_wal' = store_put_event(kv_wal, key, new_num)
                  /\ kv_store' = MapInsert(kv_store, key, new_num)
                  /\ kv_last' = KvLast("decrement", key, <<"Some", <<"Ok", new_num>>>>)
    ELSE /\ kv_wal' = store_put_event(kv_wal, key, U64Zero)
         /\ kv_store' = MapInsert(kv_store, key, U64Zero)
         /\ kv_last' = KvLast("decrement", key, None)

\* decrement with the subtraction wrapping around below zero
decrement_wraps(key, decrement_by) ==
    IF key \in DOMAIN kv_store
    THEN IF ~IsU64(kv_store[key])
         THEN /\ UNCHANGED <<kv_wal, kv_store>>
              /\ kv_last' = KvLast("decrement", key, <<"Some", <<"Err">>>>)
         ELSE LET cur_num == kv_store[key]
                  new_num == U64Sub(cur_num, decrement_by)
              IN  /\ kv_wal' = store_put_event(kv_wal, key, new_num)
                  /\ kv_store' = MapInsert(kv_store, key, new_num)
                  /\ kv_last' = KvLast("decrement", key, <<"Some", <<"Ok", new_num>>>>)
    ELSE /\ UNCHANGED <<kv_wal, kv_store>>
         /\ kv_last' = KvLast("decrement", key, None)

decrement(key, decrement_by) ==
    IF key \in DOMAIN kv_store
    THEN IF ~IsU64(kv_store[key])
         THEN /\ UNCHANGED <<kv_wal, kv_store>>
              /\ kv_last' = KvLast("decrement", key, <<"Some", <<"Err">>>>)
         ELSE LET cur_num == kv_store[key]
                  new_num == IF U64Ge(decrement_by, cur_num) THEN U64Zero
                             ELSE U64Sub(cur_num, decrement_by)
              IN  /\ kv_wal' = store_put_event(kv_wal, key, new_num)
                  /\ kv_store' = MapInsert(kv_store, key, new_num)
                  /\ kv_last' = KvLast("decrement", key, <<"Some", <<"Ok", new_num>>>>)
    ELSE /\ UNCHANGED <<kv_wal, kv_store>>
         /\ kv_last' = KvLast("decrement", key, None)

\* store.get(key) mapped to the number of its eight bytes
read_number(store, key) ==
    IF key \notin DOMAIN store THEN None
    ELSE IF ~IsU64(store[key]) THEN Some(<<"Err">>)
    ELSE Some(<<"Ok", store[key]>>)

set_number(key, number) ==
    /\ kv_wal' = store_put_event(kv_wal, key, number)
    /\ kv_store' = MapInsert(kv_store, key, number)
    /\ kv_last' = KvLast("set_number", key, <<"Unit">>)

remove(key) ==
    /\ kv_wal' = store_delete_event(kv_wal, key)
    /\ kv_store' = MapRemove(kv_store, key)
    /\ kv_last' = KvLast("remove", key, <<"Unit">>)

KvPut == \E key \in KvKeys, val \in KvVals : put(key, val)
KvCompute == \E key \in KvKeys, func \in KvFuncs : compute(key, func)
KvIncrementOrInit ==
    \E key \in KvKeys, by \in KvIncrements, checks \in BOOLEAN :
        increment_or_init(key, by, checks)
KvDecrement == \E key \in KvKeys, by \in KvDecrements : decrement(key, by)
KvSetNumber == \E key \in KvKeys, number \in KvNumbers : set_number(key, number)
KvRemove == \E key \in KvKeys : remove(key)

\* one more call, while the bound on calls allows
KvCall(op) ==
    /\ kv_ops < MaxKvOps
    /\ kv_ops' = kv_ops + 1
    /\ op
    /\ UNCHANGED <<setVars, mapVars, engine, concVars, recVars, logVars, key_cmp>>

KvNext ==
    \/ KvCall(KvPut)
    \/ KvCall(KvCompute)
    \/ KvCall(KvIncrementOrInit)
    \/ KvCall(KvDecrement)
    \/ KvCall(KvSetNumber)
    \/ KvCall(KvRemove)

-----------------------------------------------------------------------------
(* read_for_set (wal/mod.rs) *)

RECURSIVE read_for_set_loop(_, _, _)
read_for_set_loop(bytes, offset, result) ==
    IF ~(offset < Len(bytes)) THEN Returned(result)
    ELSE
    LET b == build_action(offset, bytes) IN
    IF ~b.ok THEN Panicked
    ELSE IF crc(b.action.data) # b.action.crc THEN Panicked
    ELSE IF b.action.act_type = DELETE_ACT
         THEN read_for_set_loop(bytes, b.offset, MapRemove(result, b.action.data))
    ELSE IF b.action.act_type = SET_APPEND_ACT
         THEN LET d == bincode_deserialize(b.action.data) IN
              IF ~d.ok THEN Panicked
              ELSE read_for_set_loop(bytes, b.offset,
                       IF d.key \in DOMAIN result
                       THEN MapInsert(result, d.key, result[d.key] \cup {d.value})
                       ELSE MapInsert(result, d.key, {d.value}))
    ELSE IF b.action.act_type = SET_REMOVE_ACT
         THEN LET d == bincode_deserialize(b.action.data) IN
              IF ~d.ok THEN Panicked
              ELSE read_for_set_loop(bytes, b.offset,
                       IF d.key \in DOMAIN result
                       THEN MapInsert(result, d.key, result[d.key] \ {d.value})
                       ELSE result)
    ELSE Panicked

read_for_set(bytes) ==
    IF bytes = <<>> THEN Returned(EmptyMap) ELSE read_for_set_loop(bytes, 0, EmptyMap)

-----------------------------------------------------------------------------
(* Inputs of the Key-Set store *)

SetKeys == {<<97>>, <<98>>}
SetElems == {<<1>>, <<2>>}

-----------------------------------------------------------------------------
(* Key-Set store (key_set_store.rs), one caller *)

SetLast(op, key, elem, called) == [op |-> op, key |-> key, elem |-> elem, callback |-> called]

SetInit ==
    /\ set_store = EmptyMap
    /\ set_wal = new_vec_based
    /\ set_last = SetLast("new_vec_based", <<>>, <<>>, None)
    /\ set_ops = 0

KeySet_append(key, val) ==
    /\ set_wal' = store_append_to_set_event(set_wal, key, val)
    /\ set_store' = IF key \in DOMAIN set_store
                    THEN MapInsert(set_store, key, set_store[key] \cup {val})
                    ELSE MapInsert(set_store, key, {val})
    /\ set_last' = SetLast("append", key, val, None)

\* KeySet_remove without the DELETE record for an emptied outer key
KeySet_remove_no_delete(op, key, set_entry, with_callback) ==
    LET w1 == store_remove_from_set_event(set_wal, key, set_entry) IN
    IF key \in DOMAIN set_store
    THEN LET left == set_store[key] \ {set_entry} IN
         IF left = {}
         THEN /\ set_wal' = w1
              /\ set_store' = MapRemove(set_store, key)
              /\ set_last' = SetLast(op, key, set_entry,
                                 IF with_callback THEN Some(set_entry) ELSE None)
         ELSE /\ set_wal' = w1
              /\ set_store' = MapInsert(set_store, key, left)
              /\ set_last' = SetLast(op, key, set_entry, None)
    ELSE /\ set_wal' = w1
         /\ set_store' = set_store
         /\ set_last' = SetLast(op, key, set_entry, None)

\* remove_from_set and remove_from_set_callback differ in the callback only:
\* with_callback says which of the two is running
KeySet_remove(op, key, set_entry, with_callback) ==
    LET w1 == store_remove_from_set_event(set_wal, key, set_entry) IN
    IF key \in DOMAIN set_store
    THEN LET left == set_store[key] \ {set_entry} IN
         IF left = {}
         THEN /\ set_wal' = store_delete_event(w1, key)
              /\ set_store' = MapRemove(set_store, key)
              /\ set_last' = SetLast(op, key, set_entry,
                                 IF with_callback THEN Some(set_entry) ELSE None)
         ELSE /\ set_wal' = w1
              /\ set_store' = MapInsert(set_store, key, left)
              /\ set_last' = SetLast(op, key, set_entry, None)
    ELSE /\ set_wal' = w1
         /\ set_store' = set_store
         /\ set_last' = SetLast(op, key, set_entry, None)

KeySet_remove_from_set(key, set_entry) ==
    KeySet_remove("remove_from_set", key, set_entry, FALSE)

KeySet_remove_from_set_callback(key, set_entry) ==
    KeySet_remove("remove_from_set_callback", key, set_entry, TRUE)

KeySet_remove_key(key) ==
    /\ set_wal' = store_delete_event(set_wal, key)
    /\ set_store' = MapRemove(set_store, key)
    /\ set_last' = SetLast("remove_key", key, <<>>, None)

\* callbacks handed to compute, compute_if_present and compute_if_absent
SetFuncs == {"nothing", "insert", "clear", "toggle"}

ApplySetFunc(func, set) ==
    IF func = "insert" THEN set \cup {<<1>>}
    ELSE IF func = "clear" THEN {}
    ELSE IF func = "toggle"
    THEN IF <<1>> \in set THEN set \ {<<1>>} ELSE set \cup {<<1>>}
    ELSE set

\* compute with a WAL record of the key
KeySet_compute_logged(key, func) ==
    /\ set_wal' = store_append_to_set_event(set_wal, key, <<>>)
    /\ set_store' = IF key \in DOMAIN set_store
                    THEN MapInsert(set_store, key, ApplySetFunc(func, set_store[key]))
                    ELSE MapInsert(set_store, key, ApplySetFunc(func, {}))
    /\ set_last' = SetLast("compute", key, <<>>, Some(func))

KeySet_compute(key, func) ==
    /\ set_wal' = set_wal
    /\ set_store' = IF key \in DOMAIN set_store
                    THEN MapInsert(set_store, key, ApplySetFunc(func, set_store[key]))
                    ELSE MapInsert(set_store, key, ApplySetFunc(func, {}))
    /\ set_last' = SetLast("compute", key, <<>>, Some(func))

\* compute_if_present that gives an absent key a fresh container
KeySet_compute_if_present_creates(key, func) ==
    /\ set_wal' = set_wal
    /\ set_store' = IF key \in DOMAIN set_store
                    THEN MapInsert(set_store, key, ApplySetFunc(func, set_store[key]))
                    ELSE MapInsert(set_store, key, ApplySetFunc(func, {}))
    /\ set_last' = SetLast("compute_if_present", key, <<>>, Some(func))

KeySet_compute_if_present(key, func) ==
    /\ set_wal' = set_wal
    /\ set_store' = IF key \in DOMAIN set_store
                    THEN MapInsert(set_store, key, ApplySetFunc(func, set_store[key]))
                    ELSE set_store
    /\ set_last' = SetLast("compute_if_present", key, <<>>,
                       IF key \in DOMAIN set_store THEN Some(func) ELSE None)

\* compute_if_absent that replaces the container of a present key
KeySet_compute_if_absent_replaces(key, func) ==
    /\ set_wal' = set_wal
    /\ set_store' = MapInsert(set_store, key, ApplySetFunc(func, {}))
    /\ set_last' = SetLast("compute_if_absent", key, <<>>, Some(func))

KeySet_compute_if_absent(key, func) ==
    /\ set_wal' = set_wal
    /\ set_store' = IF key \in DOMAIN set_store
                    THEN set_store
                    ELSE MapInsert(set_store, key, ApplySetFunc(func, {}))
    /\ set_last' = SetLast("compute_if_absent", key, <<>>,
                       IF key \in DOMAIN set_store THEN None ELSE Some(func))

SetAppend == \E key \in SetKeys, val \in SetElems : KeySet_append(key, val)
SetRemoveFromSet == \E key \in SetKeys, e \in SetElems : KeySet_remove_from_set(key, e)
SetRemoveFromSetCallback ==
    \E key \in SetKeys, e \in SetElems : KeySet_remove_from_set_callback(key, e)
SetRemoveKey == \E key \in SetKeys : KeySet_remove_key(key)

\* one more call, while the bound on calls allows
SetCall(op) ==
    /\ set_ops < MaxSetOps
    /\ set_ops' = set_ops + 1
    /\ op
    /\ UNCHANGED <<kvVars, mapVars, engine, concVars, recVars, logVars, key_cmp>>

SetNext ==
    \/ SetCall(SetAppend)
    \/ SetCall(SetRemoveFromSet)
    \/ SetCall(SetRemoveFromSetCallback)
    \/ SetCall(SetRemoveKey)

-----------------------------------------------------------------------------
(* SearchKey (model.rs): a vector of Key components; a Key is <<tag, value>> *)
(* with the tag the position of its variant in enum Key.  The derived Ord   *)
(* compares the variant position first and the payload second; Vec<Key>     *)
(* compares lexicographically.                                              *)

\* the variants of enum Key, numbered in the order of their declaration,
\* which is the order derive(Ord) compares them in
TAG_BOOL == 0
TAG_I == 1
TAG_U8 == 2
TAG_I16 == 3
TAG_U16 == 4
TAG_I32 == 5
TAG_U32 == 6
TAG_I64 == 7
TAG_U64 == 8
TAG_USIZE == 9
TAG_I128 == 10
TAG_U128 == 11
TAG_CHAR == 12
TAG_STR == 13
TAG_BYTES == 14

Key_USIZE(n) == <<TAG_USIZE, n>>
Key_Str(bytes) == <<TAG_STR, bytes>>
Key_Bool(b) == <<TAG_BOOL, b>>

\* From<usize> for SearchKey
SearchKeyFromUsize(n) == <<Key_USIZE(n)>>

RECURSIVE BytesCmp(_, _, _)
BytesCmp(a, b, i) ==
    IF i > Len(a) /\ i > Len(b) THEN 0
    ELSE IF i > Len(a) THEN -1
    ELSE IF i > Len(b) THEN 1
    ELSE IF a[i] < b[i] THEN -1
    ELSE IF a[i] > b[i] THEN 1
    ELSE BytesCmp(a, b, i + 1)

\* Ord for Key with the payloads compared before the variants
KeyCmp_payload_first(a, b) ==
    IF a[1] \in {TAG_STR, TAG_BYTES} /\ b[1] \in {TAG_STR, TAG_BYTES}
            /\ BytesCmp(a[2], b[2], 1) # 0
    THEN BytesCmp(a[2], b[2], 1)
    ELSE IF a[1] \notin {TAG_STR, TAG_BYTES} /\ b[1] \notin {TAG_STR, TAG_BYTES}
            /\ a[2] # b[2]
    THEN IF a[2] < b[2] THEN -1 ELSE 1
    ELSE IF a[1] < b[1] THEN -1
    ELSE IF a[1] > b[1] THEN 1
    ELSE 0

\* Ord for Key (derived): -1, 0, 1; the variants first, then the payloads
\* (String and Vec<u8> byte by byte, the scalars by value)
KeyCmp(a, b) ==
    IF a[1] < b[1] THEN -1
    ELSE IF a[1] > b[1] THEN 1
    ELSE IF a[1] \in {TAG_STR, TAG_BYTES} THEN BytesCmp(a[2], b[2], 1)
    ELSE IF a[2] < b[2] THEN -1
    ELSE IF a[2] > b[2] THEN 1
    ELSE 0

RECURSIVE SearchKeyCmpFrom(_, _, _)
SearchKeyCmpFrom(a, b, i) ==
    IF i > Len(a) /\ i > Len(b) THEN 0
    ELSE IF i > Len(a) THEN -1
    ELSE IF i > Len(b) THEN 1
    ELSE LET c == KeyCmp(a[i], b[i]) IN
         IF c # 0 THEN c ELSE SearchKeyCmpFrom(a, b, i + 1)

\* Ord for SearchKey
SearchKeyCmp(a, b) == SearchKeyCmpFrom(a, b, 1)

\* BTreeMap::first_key_value / last_key_value on a non-empty inner map
FirstKey(m) == CHOOSE s \in DOMAIN m : \A t \in DOMAIN m : SearchKeyCmp(s, t) <= 0
LastKey(m) == CHOOSE s \in DOMAIN m : \A t \in DOMAIN m : SearchKeyCmp(s, t) >= 0

-----------------------------------------------------------------------------
(* WAL events of the Key-SortedMap store.  store_put_to_map_event and      *)
(* store_remove_from_sorted_map_event are called by key_map_store.rs; they *)
(* follow the record layout and payloads of the specification: a sorted-   *)
(* map insertion is a PUT whose key is the outer key and whose value is    *)
(* the serialized SortedMapEntry, a removal is a PUT-shaped record whose   *)
(* payload is the serialized SortedMapKey.                                 *)

\* bincode writes the variant position as a u32, a usize as a u64, a string as
\* its u64 length and its bytes
SerializeKey(k) ==
    IF k[1] = TAG_STR THEN u32_to_ne_bytes(k[1]) \o u64_len_to_bytes(Len(k[2])) \o k[2]
    ELSE IF k[1] = TAG_BOOL THEN u32_to_ne_bytes(k[1]) \o <<IF k[2] THEN 1 ELSE 0>>
    ELSE u32_to_ne_bytes(k[1]) \o u64_len_to_bytes(k[2])

RECURSIVE SerializeKeys(_, _)
SerializeKeys(sk, i) ==
    IF i > Len(sk) THEN <<>> ELSE SerializeKey(sk[i]) \o SerializeKeys(sk, i + 1)

SerializeSearchKey(sk) == u64_len_to_bytes(Len(sk)) \o SerializeKeys(sk, 1)

SerializeSortedMapEntry(key, search_key, value) ==
    u64_len_to_bytes(Len(key)) \o key \o SerializeSearchKey(search_key)
        \o u64_len_to_bytes(Len(value)) \o value

SerializeSortedMapKey(key, search_key) ==
    u64_len_to_bytes(Len(key)) \o key \o SerializeSearchKey(search_key)

store_put_to_map_event(w, key, search_key, value) ==
    WalAppend(w, put_action(w.offset,
        KeyValueData(key, SerializeSortedMapEntry(key, search_key, value))))

store_remove_from_sorted_map_event(w, key, search_key) ==
    LET data == SerializeSortedMapKey(key, search_key)
    IN  WalAppend(w, StoredAction(PUT_ACT, crc(data), Len(data), data, w.offset))

-----------------------------------------------------------------------------
(* Inputs of the Key-SortedMap store *)

MapKeys == {<<97>>, <<98>>}
MapSearchKeys ==
    {SearchKeyFromUsize(0), <<Key_Str(<<115>>)>>, <<Key_USIZE(0), Key_Str(<<115>>)>>, <<>>}
MapVals == {<<120>>}
MapFuncs == {"nothing", "insert", "clear", "toggle"}
MapBounds ==
    {<<"Unbounded">>}
        \cup {<<kind, s>> : kind \in {"Included", "Excluded"},
                            s \in {SearchKeyFromUsize(0), <<Key_Str(<<115>>)>>}}

ApplyMapFunc(func, map) ==
    IF func = "insert" THEN MapInsert(map, SearchKeyFromUsize(0), <<120>>)
    ELSE IF func = "clear" THEN EmptyMap
    ELSE IF func = "toggle"
    THEN IF SearchKeyFromUsize(0) \in DOMAIN map THEN MapRemove(map, SearchKeyFromUsize(0))
         ELSE MapInsert(map, SearchKeyFromUsize(0), <<120>>)
    ELSE map

-----------------------------------------------------------------------------
(* Key-SortedMap store (key_map_store.rs), one caller *)

MapLast(op, key, search_key, ret, called) ==
    [op |-> op, key |-> key, search_key |-> search_key, ret |-> ret, callback |-> called]

MapInit ==
    /\ map_store = EmptyMap
    /\ map_wal = new_vec_based
    /\ map_last = MapLast("new_vec_based", <<>>, <<>>, <<"Unit">>, None)
    /\ map_ops = 0

\* the entries of an inner map in ascending SearchKey order
RECURSIVE SortedEntries(_)
SortedEntries(m) ==
    IF m = EmptyMap THEN <<>>
    ELSE LET s == FirstKey(m) IN <<<<s, m[s]>>>> \o SortedEntries(MapRemove(m, s))

\* BTreeMap::range on a map with a root: it panics when both bounds are
\* excluded and equal, and when the start is greater than the end
RangePanics(bound_start, bound_end) ==
    /\ bound_start[1] # "Unbounded"
    /\ bound_end[1] # "Unbounded"
    /\ \/ /\ bound_start[1] = "Excluded"
          /\ bound_end[1] = "Excluded"
          /\ SearchKeyCmp(bound_start[2], bound_end[2]) = 0
       \/ SearchKeyCmp(bound_start[2], bound_end[2]) > 0

AboveStart(bound, s) ==
    IF bound[1] = "Included" THEN SearchKeyCmp(s, bound[2]) >= 0
    ELSE IF bound[1] = "Excluded" THEN SearchKeyCmp(s, bound[2]) > 0
    ELSE TRUE

BelowEnd(bound, s) ==
    IF bound[1] = "Included" THEN SearchKeyCmp(s, bound[2]) <= 0
    ELSE IF bound[1] = "Excluded" THEN SearchKeyCmp(s, bound[2]) < 0
    ELSE TRUE

\* range_entries: store.get(key).map(|v| v.value().range(..).collect()); an
\* inner map emptied by clear() or never filled has no root
range_entries_of(store, key, bound_start, bound_end) ==
    IF key \notin DOMAIN store THEN None
    ELSE LET m == store[key] IN
         IF m # EmptyMap /\ RangePanics(bound_start, bound_end) THEN <<"Panic">>
         ELSE Some(SortedEntries(
                  [s \in {x \in DOMAIN m : AboveStart(bound_start, x) /\ BelowEnd(bound_end, x)}
                      |-> m[s]]))

range_entries(key, bound_start, bound_end) ==
    /\ map_last' = MapLast("range_entries", key, <<bound_start, bound_end>>,
                       range_entries_of(map_store, key, bound_start, bound_end), None)
    /\ UNCHANGED <<map_store, map_wal>>

KeyMap_put(key, search_key, val) ==
    /\ map_wal' = store_put_to_map_event(map_wal, key, search_key, val)
    /\ map_store' = IF key \in DOMAIN map_store
                    THEN MapInsert(map_store, key, MapInsert(map_store[key], search_key, val))
                    ELSE MapInsert(map_store, key, MapInsert(EmptyMap, search_key, val))
    /\ map_last' = MapLast("put", key, search_key, <<"Unit">>, None)

\* remove_from_sorted_map returns the removed value, the callback variant
\* returns nothing and calls back when the outer key went away
KeyMap_remove(op, key, search_key, with_callback) ==
    LET w1 == store_remove_from_sorted_map_event(map_wal, key, search_key) IN
    IF key \in DOMAIN map_store
    THEN LET old_value == KvGet(map_store[key], search_key)
             left == MapRemove(map_store[key], search_key)
             ret == IF with_callback THEN <<"Unit">> ELSE old_value
         IN  IF left = EmptyMap
             THEN /\ map_wal' = store_delete_event(w1, key)
                  /\ map_store' = MapRemove(map_store, key)
                  /\ map_last' = MapLast(op, key, search_key, ret,
                                     IF with_callback THEN Some(search_key) ELSE None)
             ELSE /\ map_wal' = w1
                  /\ map_store' = MapInsert(map_store, key, left)
                  /\ map_last' = MapLast(op, key, search_key, ret, None)
    ELSE /\ map_wal' = w1
         /\ map_store' = map_store
         /\ map_last' = MapLast(op, key, search_key,
                            IF with_callback THEN <<"Unit">> ELSE None, None)

remove_from_sorted_map(key, search_key) ==
    KeyMap_remove("remove_from_sorted_map", key, search_key, FALSE)

remove_from_sorted_map_callback(key, search_key) ==
    KeyMap_remove("remove_from_sorted_map_callback", key, search_key, TRUE)

KeyMap_remove_key(key) ==
    /\ map_wal' = store_delete_event(map_wal, key)
    /\ map_store' = MapRemove(map_store, key)
    /\ map_last' = MapLast("remove_key", key, <<>>, <<"Unit">>, None)

\* KeyMap_pop without the is_empty check after the pop
KeyMap_pop_no_is_empty(op, key, from_front) ==
    IF key \in DOMAIN map_store
    THEN IF map_store[key] # EmptyMap
         THEN LET search_key == IF from_front THEN FirstKey(map_store[key])
                                ELSE LastKey(map_store[key])
                  left == MapRemove(map_store[key], search_key)
                  w1 == store_remove_from_sorted_map_event(map_wal, key, search_key)
                  element == key
              IN  /\ map_last' = MapLast(op, key, search_key,
                                     Some(<<search_key, element>>), None)
                  /\ map_wal' = w1
                  /\ map_store' = MapInsert(map_store, key, left)
         ELSE /\ UNCHANGED <<map_wal, map_store>>
              /\ map_last' = MapLast(op, key, <<>>, None, None)
    ELSE /\ UNCHANGED <<map_wal, map_store>>
         /\ map_last' = MapLast(op, key, <<>>, None, None)

\* pop_first and pop_last differ in the end of the inner map they pop:
\* the entry is popped first, its removal record written second, and the
\* pair returned is (search key, what the removal event handed back first)
KeyMap_pop(op, key, from_front) ==
    IF key \in DOMAIN map_store
    THEN IF map_store[key] # EmptyMap
         THEN LET search_key == IF from_front THEN FirstKey(map_store[key])
                                ELSE LastKey(map_store[key])
                  left == MapRemove(map_store[key], search_key)
                  w1 == store_remove_from_sorted_map_event(map_wal, key, search_key)
                  element == key
              IN  /\ map_last' = MapLast(op, key, search_key,
                                     Some(<<search_key, element>>), None)
                  /\ IF left = EmptyMap
                     THEN /\ map_wal' = store_delete_event(w1, key)
                          /\ map_store' = MapRemove(map_store, key)
                     ELSE /\ map_wal' = w1
                          /\ map_store' = MapInsert(map_store, key, left)
         ELSE /\ map_wal' = store_delete_event(map_wal, key)
              /\ map_store' = MapRemove(map_store, key)
              /\ map_last' = MapLast(op, key, <<>>, None, None)
    ELSE /\ UNCHANGED <<map_wal, map_store>>
         /\ map_last' = MapLast(op, key, <<>>, None, None)

pop_first(key) == KeyMap_pop("pop_first", key, TRUE)

pop_last(key) == KeyMap_pop("pop_last", key, FALSE)

\* the next position is read off the first component of the largest search
\* key alone; first().unwrap() panics on a search key of no components
append_ordered_element(key, element) ==
    IF key \in DOMAIN map_store
    THEN IF map_store[key] # EmptyMap /\ LastKey(map_store[key]) = <<>>
         THEN /\ UNCHANGED <<map_wal, map_store>>
              /\ map_last' = MapLast("append_ordered_element", key, <<>>, <<"Panic">>, None)
         ELSE LET cur_num ==
                      IF map_store[key] = EmptyMap THEN 0
                      ELSE LET last_search_key == LastKey(map_store[key])[1] IN
                           IF last_search_key[1] = TAG_USIZE
                           THEN last_search_key[2] + 1 ELSE 0
                  search_key == SearchKeyFromUsize(cur_num)
              IN  /\ map_wal' = store_put_to_map_event(map_wal, key, search_key, element)
                  /\ map_store' = MapInsert(map_store, key,
                                      MapInsert(map_store[key], search_key, element))
                  /\ map_last' = MapLast("append_ordered_element", key, search_key,
                                     <<"Unit">>, None)
    ELSE LET search_key == SearchKeyFromUsize(0) IN
         /\ map_wal' = store_put_to_map_event(map_wal, key, search_key, element)
         /\ map_store' = MapInsert(map_store, key, MapInsert(EmptyMap, search_key, element))
         /\ map_last' = MapLast("append_ordered_element", key, search_key, <<"Unit">>, None)

KeyMap_compute(key, func) ==
    /\ map_wal' = map_wal
    /\ map_store' = IF key \in DOMAIN map_store
                    THEN MapInsert(map_store, key, ApplyMapFunc(func, map_store[key]))
                    ELSE MapInsert(map_store, key, ApplyMapFunc(func, EmptyMap))
    /\ map_last' = MapLast("compute", key, <<>>, <<"Unit">>, Some(func))

KeyMap_compute_if_present(key, func) ==
    /\ map_wal' = map_wal
    /\ map_store' = IF key \in DOMAIN map_store
                    THEN MapInsert(map_store, key, ApplyMapFunc(func, map_store[key]))
                    ELSE map_store
    /\ map_last' = MapLast("compute_if_present", key, <<>>, <<"Unit">>,
                       IF key \in DOMAIN map_store THEN Some(func) ELSE None)

KeyMap_compute_if_absent(key, func) ==
    /\ map_wal' = map_wal
    /\ map_store' = IF key \in DOMAIN map_store
                    THEN map_store
                    ELSE MapInsert(map_store, key, ApplyMapFunc(func, EmptyMap))
    /\ map_last' = MapLast("compute_if_absent", key, <<>>, <<"Unit">>,
                       IF key \in DOMAIN map_store THEN None ELSE Some(func))

-----------------------------------------------------------------------------
(* Specifications: each exercises one part of the program from its state   *)
(* after construction and leaves the other parts as constructed.           *)

\* no concurrent callers
NoThreads ==
    /\ th = <<>>
    /\ shard = 0
    /\ poisoned = FALSE
    /\ wal_lock = 0
    /\ tick = <<>>

\* no store directory
NoFiles ==
    /\ fs = [wal |-> None, tmp |-> None]
    /\ proc = [pc |-> "none"]
    /\ original = EmptyMap
    /\ old_wal = <<>>
    /\ crashes = 0

\* no WalStorage on its own, no bytes under the readers
NoLog ==
    /\ wal = new_vec_based
    /\ wal_sunk = U64Zero
    /\ wal_ops = 0
    /\ log = [bytes |-> <<>>, damage |-> "none", record |-> 0]
    /\ key_cmp = <<>>

Init == KvInit /\ SetInit /\ MapInit /\ engine = "none" /\ NoThreads /\ NoFiles /\ NoLog

\* the KV store under one caller
SpecKV == Init /\ [][KvNext]_vars

\* the Key-Set store under one caller, WAL-logged operations only
SpecSet == Init /\ [][SetNext]_vars

-----------------------------------------------------------------------------
(* The two collection stores under one caller, every mutating operation.    *)
(* A run exercises one of the stores, from the store as constructed or from *)
(* the store three insertions later, and issues its calls on CollKey.       *)

CollKey == <<97>>
OtherKey == <<98>>

\* the Key-Set store after append(a, 1), append(a, 2), append(b, 1)
SetAfterAppends ==
    /\ set_store = MapInsert(MapInsert(EmptyMap, CollKey, {<<1>>, <<2>>}), OtherKey, {<<1>>})
    /\ set_wal = store_append_to_set_event(
                     store_append_to_set_event(
                         store_append_to_set_event(new_vec_based, CollKey, <<1>>),
                         CollKey, <<2>>),
                     OtherKey, <<1>>)
    /\ set_last = SetLast("append", OtherKey, <<1>>, None)
    /\ set_ops = 0

\* the Key-SortedMap store after put(a, [USIZE(0)], x), put(a, ["s"], x),
\* put(b, [USIZE(0)], x)
MapAfterPuts ==
    /\ map_store = MapInsert(
                       MapInsert(EmptyMap, CollKey,
                           MapInsert(MapInsert(EmptyMap, SearchKeyFromUsize(0), <<120>>),
                                     <<Key_Str(<<115>>)>>, <<120>>)),
                       OtherKey, MapInsert(EmptyMap, SearchKeyFromUsize(0), <<120>>))
    /\ map_wal = store_put_to_map_event(
                     store_put_to_map_event(
                         store_put_to_map_event(new_vec_based, CollKey,
                                                SearchKeyFromUsize(0), <<120>>),
                         CollKey, <<Key_Str(<<115>>)>>, <<120>>),
                     OtherKey, SearchKeyFromUsize(0), <<120>>)
    /\ map_last = MapLast("put", OtherKey, SearchKeyFromUsize(0), <<"Unit">>, None)
    /\ map_ops = 0

CollInit ==
    /\ KvInit
    /\ NoThreads
    /\ NoFiles
    /\ NoLog
    /\ engine \in {"set", "map"}
    /\ SetInit \/ (engine = "set" /\ SetAfterAppends)
    /\ MapInit \/ (engine = "map" /\ MapAfterPuts)

CollSetAppend == \E val \in SetElems : KeySet_append(CollKey, val)
CollSetRemoveFromSet == \E e \in SetElems : KeySet_remove_from_set(CollKey, e)
CollSetRemoveFromSetCallback ==
    \E e \in SetElems : KeySet_remove_from_set_callback(CollKey, e)
CollSetRemoveKey == KeySet_remove_key(CollKey)
CollSetCompute == \E func \in SetFuncs : KeySet_compute(CollKey, func)
CollSetComputeIfPresent == \E func \in SetFuncs : KeySet_compute_if_present(CollKey, func)
CollSetComputeIfAbsent == \E func \in SetFuncs : KeySet_compute_if_absent(CollKey, func)

CollSetCall(op) ==
    /\ engine = "set"
    /\ set_ops < MaxCollOps
    /\ set_ops' = set_ops + 1
    /\ op
    /\ UNCHANGED <<kvVars, mapVars, engine, concVars, recVars, logVars, key_cmp>>

CollSetNext ==
    \/ CollSetCall(CollSetAppend)
    \/ CollSetCall(CollSetRemoveFromSet)
    \/ CollSetCall(CollSetRemoveFromSetCallback)
    \/ CollSetCall(CollSetRemoveKey)
    \/ CollSetCall(CollSetCompute)
    \/ CollSetCall(CollSetComputeIfPresent)
    \/ CollSetCall(CollSetComputeIfAbsent)

CollMapPut == \E sk \in MapSearchKeys, val \in MapVals : KeyMap_put(CollKey, sk, val)
CollMapRemove == \E sk \in MapSearchKeys : remove_from_sorted_map(CollKey, sk)
CollMapRemoveCallback == \E sk \in MapSearchKeys : remove_from_sorted_map_callback(CollKey, sk)
CollMapRemoveKey == KeyMap_remove_key(CollKey)
CollMapPopFirst == pop_first(CollKey)
CollMapPopLast == pop_last(CollKey)
CollMapAppendOrdered == \E val \in MapVals : append_ordered_element(CollKey, val)
CollMapRangeEntries ==
    \E key \in {CollKey, OtherKey}, bound_start \in MapBounds, bound_end \in MapBounds :
        range_entries(key, bound_start, bound_end)
CollMapCompute == \E func \in MapFuncs : KeyMap_compute(CollKey, func)
CollMapComputeIfPresent == \E func \in MapFuncs : KeyMap_compute_if_present(CollKey, func)
CollMapComputeIfAbsent == \E func \in MapFuncs : KeyMap_compute_if_absent(CollKey, func)

CollMapCall(op) ==
    /\ engine = "map"
    /\ map_ops < MaxCollOps
    /\ map_ops' = map_ops + 1
    /\ op
    /\ UNCHANGED <<kvVars, setVars, engine, concVars, recVars, logVars, key_cmp>>

CollMapNext ==
    \/ CollMapCall(CollMapPut)
    \/ CollMapCall(CollMapRemove)
    \/ CollMapCall(CollMapRemoveCallback)
    \/ CollMapCall(CollMapRemoveKey)
    \/ CollMapCall(CollMapPopFirst)
    \/ CollMapCall(CollMapPopLast)
    \/ CollMapCall(CollMapAppendOrdered)
    \/ CollMapCall(CollMapRangeEntries)
    \/ CollMapCall(CollMapCompute)
    \/ CollMapCall(CollMapComputeIfPresent)
    \/ CollMapCall(CollMapComputeIfAbsent)

CollNext == CollSetNext \/ CollMapNext

SpecColl == CollInit /\ [][CollNext]_vars

-----------------------------------------------------------------------------
(* Concurrent callers.  Each thread makes one call on ConcKey.  A step is    *)
(* what a call does between two points where another thread can act: the    *)
(* taking of the WAL lock at the head of store_*_event, the rest of the     *)
(* event (the record is written and the lock released), a DashMap access    *)
(* (insert, remove, get and get_mut take and release the shard lock; entry  *)
(* keeps it until the Entry is dropped).  A WAL event panics when the       *)
(* writer reports an error or when the WAL lock is poisoned; the panic      *)
(* drops the WAL lock and the Entry the call holds.                         *)

ConcKey == <<97>>
Threads == 1..NThreads

\* 255: adding one carries into the second byte
ConcNumber == <<255, 0, 0, 0, 0, 0, 0, 0>>

Call(op, arg, pc) ==
    [op |-> op, arg |-> arg, pc |-> pc, val |-> <<>>, ret |-> None,
     records |-> 0, effects |-> 0, unlogged |-> {}]

\* the calls of the KV store, with the step each begins at
KvCalls ==
    << Call("put", <<120>>, "log"),
       Call("put", <<121>>, "log"),
       Call("set_number", ConcNumber, "log"),
       Call("remove", <<>>, "log"),
       Call("compute", "bump", "entry"),
       Call("increment_or_init", [by |-> U64One, overflow_checks |-> TRUE], "entry"),
       Call("decrement", U64One, "entry"),
       Call("get", <<>>, "read"),
       Call("contains", <<>>, "read") >>

\* one more effect on memory when a step leaves the store different
Effect(before, after) == IF after # before THEN 1 ELSE 0

\* thread t moves on: its record becomes r
Ticks(t) == tick' = [tick EXCEPT ![t] = ~@]

Step(t, r) == th' = [th EXCEPT ![t] = r] /\ Ticks(t)

Returns(t, ret) == [th[t] EXCEPT !.pc = "done", !.ret = ret]

\* kv_log with the WAL lock kept until the map has been changed
kv_log_lock_kept(t) ==
    /\ engine = "kv"
    /\ th[t].pc = "log"
    /\ wal_lock = t
    /\ kv_wal' = IF th[t].op = "remove"
                 THEN store_delete_event(kv_wal, ConcKey)
                 ELSE store_put_event(kv_wal, ConcKey, th[t].arg)
    /\ Step(t, [th[t] EXCEPT !.pc = "install", !.records = @ + 1])
    /\ UNCHANGED <<kv_store, shard, poisoned>>
    /\ wal_lock' = wal_lock

\* KV put, set_number, remove: the WAL event, before any lock on the map
kv_log(t) ==
    /\ engine = "kv"
    /\ th[t].pc = "log"
    /\ wal_lock = t
    /\ kv_wal' = IF th[t].op = "remove"
                 THEN store_delete_event(kv_wal, ConcKey)
                 ELSE store_put_event(kv_wal, ConcKey, th[t].arg)
    /\ Step(t, [th[t] EXCEPT !.pc = "install", !.records = @ + 1])
    /\ UNCHANGED <<kv_store, shard, poisoned>>
    /\ wal_lock' = 0

\* KV put, set_number, remove: store.insert / store.remove
kv_install(t) ==
    /\ engine = "kv"
    /\ th[t].pc = "install"
    /\ shard = 0
    /\ kv_store' = IF th[t].op = "remove"
                   THEN MapRemove(kv_store, ConcKey)
                   ELSE MapInsert(kv_store, ConcKey, th[t].arg)
    /\ Step(t, [Returns(t, <<"Unit">>) EXCEPT !.effects = @ + Effect(kv_store, kv_store')])
    /\ UNCHANGED <<kv_wal, shard, poisoned, wal_lock>>

\* kv_entry with the value read through a guard that is dropped at once: the
\* shard is free while the call logs and installs
kv_entry_unlocked(t) ==
    /\ engine = "kv"
    /\ th[t].pc = "entry"
    /\ shard = 0
    /\ LET cur == KvGet(kv_store, ConcKey)
           op == th[t].op
           locked(new_val) ==
               /\ Step(t, [th[t] EXCEPT !.pc = "locked_log", !.val = new_val])
               /\ shard' = shard
           back(ret) ==
               /\ Step(t, Returns(t, ret))
               /\ shard' = shard
       IN  IF op = "compute" THEN locked(ApplyFunc(th[t].arg, cur))
           ELSE IF op = "increment_or_init"
           THEN IF cur = None THEN locked(th[t].arg.by)
                ELSE IF ~IsU64(cur[2]) THEN back(<<"Err">>)
                ELSE LET add == U64Add(cur[2], th[t].arg.by) IN
                     IF add.overflow /\ th[t].arg.overflow_checks
                     THEN /\ Step(t, [th[t] EXCEPT !.pc = "panicked"])
                          /\ shard' = shard
                     ELSE locked(add.sum)
           ELSE IF cur = None THEN back(None)
                ELSE IF ~IsU64(cur[2]) THEN back(Some(<<"Err">>))
                ELSE locked(IF U64Ge(th[t].arg, cur[2]) THEN U64Zero
                            ELSE U64Sub(cur[2], th[t].arg))
    /\ UNCHANGED <<kv_store, kv_wal, poisoned, wal_lock>>

\* KV compute, increment_or_init, decrement: store.entry(key) and what the
\* call works out from the entry before its WAL event
kv_entry(t) ==
    /\ engine = "kv"
    /\ th[t].pc = "entry"
    /\ shard = 0
    /\ LET cur == KvGet(kv_store, ConcKey)
           op == th[t].op
           locked(new_val) ==
               /\ Step(t, [th[t] EXCEPT !.pc = "locked_log", !.val = new_val])
               /\ shard' = t
           back(ret) ==
               /\ Step(t, Returns(t, ret))
               /\ shard' = shard
       IN  IF op = "compute" THEN locked(ApplyFunc(th[t].arg, cur))
           ELSE IF op = "increment_or_init"
           THEN IF cur = None THEN locked(th[t].arg.by)
                ELSE IF ~IsU64(cur[2]) THEN back(<<"Err">>)
                ELSE LET add == U64Add(cur[2], th[t].arg.by) IN
                     IF add.overflow /\ th[t].arg.overflow_checks
                     THEN /\ Step(t, [th[t] EXCEPT !.pc = "panicked"])
                          /\ shard' = shard
                     ELSE locked(add.sum)
           ELSE IF cur = None THEN back(None)
                ELSE IF ~IsU64(cur[2]) THEN back(Some(<<"Err">>))
                ELSE locked(IF U64Ge(th[t].arg, cur[2]) THEN U64Zero
                            ELSE U64Sub(cur[2], th[t].arg))
    /\ UNCHANGED <<kv_store, kv_wal, poisoned, wal_lock>>

\* KV compute, increment_or_init, decrement: the WAL event, entry held
kv_locked_log(t) ==
    /\ engine = "kv"
    /\ th[t].pc = "locked_log"
    /\ wal_lock = t
    /\ kv_wal' = store_put_event(kv_wal, ConcKey, th[t].val)
    /\ Step(t, [th[t] EXCEPT !.pc = "locked_install", !.records = @ + 1])
    /\ UNCHANGED <<kv_store, shard, poisoned>>
    /\ wal_lock' = 0

\* KV compute, increment_or_init, decrement: the new value goes into the
\* entry and the entry is dropped
kv_locked_install(t) ==
    /\ engine = "kv"
    /\ th[t].pc = "locked_install"
    /\ kv_store' = MapInsert(kv_store, ConcKey, th[t].val)
    /\ shard' = 0
    /\ LET ret == IF th[t].op = "compute" THEN <<"Unit">>
                  ELSE IF th[t].op = "increment_or_init" THEN <<"Ok", th[t].val>>
                  ELSE Some(<<"Ok", th[t].val>>)
       IN  Step(t, [Returns(t, ret) EXCEPT !.effects = @ + Effect(kv_store, kv_store')])
    /\ UNCHANGED <<kv_wal, poisoned, wal_lock>>

\* the calls that have changed memory more often than they have written a
\* record: an effect of theirs is in memory while its record is not in the WAL
Unlogged == {u \in Threads : th[u].effects > th[u].records}

\* KV get, contains: store.get / store.contains_key
kv_read(t) ==
    /\ engine = "kv"
    /\ th[t].pc = "read"
    /\ shard = 0
    /\ LET ret == IF th[t].op = "get" THEN KvGet(kv_store, ConcKey)
                  ELSE <<"Bool", ConcKey \in DOMAIN kv_store>>
       IN  Step(t, [Returns(t, ret) EXCEPT !.unlogged = Unlogged])
    /\ UNCHANGED <<kv_store, kv_wal, shard, poisoned, wal_lock>>

\* the steps that are a WAL event
LogSteps == {"log", "locked_log", "locked_log_delete"}

\* a WAL event begins: wal_state.write() gives the caller the lock
wal_state_write(t) ==
    /\ th[t].pc \in LogSteps
    /\ wal_lock = 0
    /\ ~poisoned
    /\ wal_lock' = t
    /\ Ticks(t)
    /\ UNCHANGED <<th, shard, poisoned,
                   kv_store, kv_wal, set_store, set_wal, map_store, map_wal>>

\* a WAL event panics: file.write(..).unwrap() on a writer error with the
\* lock held, or wal_state.write().unwrap() on the poisoned lock
wal_panic(t) ==
    /\ th[t].pc \in LogSteps
    /\ wal_lock = t \/ (wal_lock = 0 /\ poisoned)
    /\ Step(t, [th[t] EXCEPT !.pc = "wal_panicked"])
    /\ poisoned' = TRUE
    /\ wal_lock' = 0
    /\ shard' = IF shard = t THEN 0 ELSE shard
    /\ UNCHANGED <<kv_store, kv_wal, set_store, set_wal, map_store, map_wal>>

\* the calls of the Key-Set store
SetCalls ==
    << Call("append", <<1>>, "log"),
       Call("append", <<2>>, "log"),
       Call("remove_from_set", <<1>>, "log"),
       Call("remove_from_set_callback", <<1>>, "log"),
       Call("remove_key", <<>>, "log"),
       Call("get_hashset", <<>>, "read"),
       Call("contains_in_set", <<1>>, "read") >>

\* Key-Set append, remove_from_set(_callback), remove_key: the WAL event
set_log(t) ==
    /\ engine = "set"
    /\ th[t].pc = "log"
    /\ wal_lock = t
    /\ LET op == th[t].op IN
       IF op = "append"
       THEN /\ set_wal' = store_append_to_set_event(set_wal, ConcKey, th[t].arg)
            /\ Step(t, [th[t] EXCEPT !.pc = "get_mut", !.records = @ + 1])
       ELSE IF op = "remove_key"
       THEN /\ set_wal' = store_delete_event(set_wal, ConcKey)
            /\ Step(t, [th[t] EXCEPT !.pc = "install", !.records = @ + 1])
       ELSE /\ set_wal' = store_remove_from_set_event(set_wal, ConcKey, th[t].arg)
            /\ Step(t, [th[t] EXCEPT !.pc = "entry", !.records = @ + 1])
    /\ UNCHANGED <<set_store, shard, poisoned>>
    /\ wal_lock' = 0

\* Key-Set append: store.get_mut(&key); the guard of a present set is used
\* and dropped at once, an absent key leaves no guard
set_get_mut(t) ==
    /\ engine = "set"
    /\ th[t].pc = "get_mut"
    /\ shard = 0
    /\ IF ConcKey \in DOMAIN set_store
       THEN /\ set_store' = MapInsert(set_store, ConcKey, set_store[ConcKey] \cup {th[t].arg})
            /\ Step(t, [Returns(t, <<"Unit">>) EXCEPT !.effects = @ + Effect(set_store, set_store')])
       ELSE /\ set_store' = set_store
            /\ Step(t, [th[t] EXCEPT !.pc = "insert_new"])
    /\ UNCHANGED <<set_wal, shard, poisoned, wal_lock>>

\* Key-Set append: store.insert(key, new_hashset)
set_insert_new(t) ==
    /\ engine = "set"
    /\ th[t].pc = "insert_new"
    /\ shard = 0
    /\ set_store' = MapInsert(set_store, ConcKey, {th[t].arg})
    /\ Step(t, [Returns(t, <<"Unit">>) EXCEPT !.effects = @ + Effect(set_store, set_store')])
    /\ UNCHANGED <<set_wal, shard, poisoned, wal_lock>>

\* Key-Set remove_from_set(_callback): store.entry(key) and the removal of
\* the element from the set of an occupied entry
\* remove_from_set_callback whose callback runs for every element it removes
set_entry_calls_back(t) ==
    /\ engine = "set"
    /\ th[t].pc = "entry"
    /\ shard = 0
    /\ IF ConcKey \in DOMAIN set_store
       THEN LET left == set_store[ConcKey] \ {th[t].arg} IN
            /\ set_store' = MapInsert(set_store, ConcKey, left)
            /\ IF left = {}
               THEN /\ Step(t, [th[t] EXCEPT !.pc = "locked_log_delete",
                                             !.effects = @ + Effect(set_store, set_store')])
                    /\ shard' = t
               ELSE /\ Step(t, [(IF th[t].op = "remove_from_set_callback"
                                 THEN [th[t] EXCEPT !.pc = "callback"]
                                 ELSE Returns(t, <<"Unit">>))
                                EXCEPT !.effects = @ + Effect(set_store, set_store')])
                    /\ shard' = shard
       ELSE /\ set_store' = set_store
            /\ Step(t, Returns(t, <<"Unit">>))
            /\ shard' = shard
    /\ UNCHANGED <<set_wal, poisoned, wal_lock>>

set_entry(t) ==
    /\ engine = "set"
    /\ th[t].pc = "entry"
    /\ shard = 0
    /\ IF ConcKey \in DOMAIN set_store
       THEN LET left == set_store[ConcKey] \ {th[t].arg} IN
            /\ set_store' = MapInsert(set_store, ConcKey, left)
            /\ IF left = {}
               THEN /\ Step(t, [th[t] EXCEPT !.pc = "locked_log_delete",
                                             !.effects = @ + Effect(set_store, set_store')])
                    /\ shard' = t
               ELSE /\ Step(t, [Returns(t, <<"Unit">>) EXCEPT
                                   !.effects = @ + Effect(set_store, set_store')])
                    /\ shard' = shard
       ELSE /\ set_store' = set_store
            /\ Step(t, Returns(t, <<"Unit">>))
            /\ shard' = shard
    /\ UNCHANGED <<set_wal, poisoned, wal_lock>>

\* Key-Set remove_from_set(_callback): the DELETE event of the emptied key
set_locked_log_delete(t) ==
    /\ engine = "set"
    /\ th[t].pc = "locked_log_delete"
    /\ wal_lock = t
    /\ set_wal' = store_delete_event(set_wal, ConcKey)
    /\ Step(t, [th[t] EXCEPT !.pc = "locked_entry_remove", !.records = @ + 1])
    /\ UNCHANGED <<set_store, shard, poisoned>>
    /\ wal_lock' = 0

\* Key-Set remove_from_set(_callback): entry.remove(), then the callback
set_locked_entry_remove(t) ==
    /\ engine = "set"
    /\ th[t].pc = "locked_entry_remove"
    /\ set_store' = MapRemove(set_store, ConcKey)
    /\ shard' = 0
    /\ Step(t, [(IF th[t].op = "remove_from_set_callback"
                  THEN [th[t] EXCEPT !.pc = "callback"]
                  ELSE Returns(t, <<"Unit">>))
                EXCEPT !.effects = @ + 1])
    /\ UNCHANGED <<set_wal, poisoned, wal_lock>>

\* Key-Set remove_key: store.remove(key)
set_install(t) ==
    /\ engine = "set"
    /\ th[t].pc = "install"
    /\ shard = 0
    /\ set_store' = MapRemove(set_store, ConcKey)
    /\ Step(t, [Returns(t, <<"Unit">>) EXCEPT !.effects = @ + Effect(set_store, set_store')])
    /\ UNCHANGED <<set_wal, shard, poisoned, wal_lock>>

\* Key-Set get_hashset, contains_in_set: store.get(key)
set_read(t) ==
    /\ engine = "set"
    /\ th[t].pc = "read"
    /\ shard = 0
    /\ LET ret == IF th[t].op = "get_hashset" THEN KvGet(set_store, ConcKey)
                  ELSE <<"Bool", ConcKey \in DOMAIN set_store /\ th[t].arg \in set_store[ConcKey]>>
       IN  Step(t, [Returns(t, ret) EXCEPT !.unlogged = Unlogged])
    /\ UNCHANGED <<set_store, set_wal, shard, poisoned, wal_lock>>

\* the calls of the Key-SortedMap store
MapCalls ==
    << Call("put", [search_key |-> SearchKeyFromUsize(0), val |-> <<120>>], "log"),
       Call("put", [search_key |-> <<Key_Str(<<115>>)>>, val |-> <<121>>], "log"),
       Call("remove_from_sorted_map", SearchKeyFromUsize(0), "log"),
       Call("remove_from_sorted_map_callback", SearchKeyFromUsize(0), "log"),
       Call("remove_key", <<>>, "log"),
       Call("pop_first", <<>>, "entry"),
       Call("pop_last", <<>>, "entry"),
       Call("append_ordered_element", <<122>>, "entry"),
       Call("append_ordered_element", <<123>>, "entry"),
       Call("get_element", SearchKeyFromUsize(0), "read"),
       Call("first", <<>>, "read"),
       Call("last", <<>>, "read"),
       Call("range_entries", <<>>, "read") >>

\* Key-SortedMap put, remove_from_sorted_map(_callback), remove_key: the WAL
\* event
map_log(t) ==
    /\ engine = "map"
    /\ th[t].pc = "log"
    /\ wal_lock = t
    /\ LET op == th[t].op IN
       IF op = "put"
       THEN /\ map_wal' = store_put_to_map_event(map_wal, ConcKey,
                              th[t].arg.search_key, th[t].arg.val)
            /\ Step(t, [th[t] EXCEPT !.pc = "get_mut", !.records = @ + 1])
       ELSE IF op = "remove_key"
       THEN /\ map_wal' = store_delete_event(map_wal, ConcKey)
            /\ Step(t, [th[t] EXCEPT !.pc = "install", !.records = @ + 1])
       ELSE /\ map_wal' = store_remove_from_sorted_map_event(map_wal, ConcKey, th[t].arg)
            /\ Step(t, [th[t] EXCEPT !.pc = "entry", !.records = @ + 1])
    /\ UNCHANGED <<map_store, shard, poisoned>>
    /\ wal_lock' = 0

\* Key-SortedMap put: store.get_mut(&key)
map_get_mut(t) ==
    /\ engine = "map"
    /\ th[t].pc = "get_mut"
    /\ shard = 0
    /\ IF ConcKey \in DOMAIN map_store
       THEN /\ map_store' = MapInsert(map_store, ConcKey,
                                MapInsert(map_store[ConcKey],
                                          th[t].arg.search_key, th[t].arg.val))
            /\ Step(t, [Returns(t, <<"Unit">>) EXCEPT !.effects = @ + Effect(map_store, map_store')])
       ELSE /\ map_store' = map_store
            /\ Step(t, [th[t] EXCEPT !.pc = "insert_new"])
    /\ UNCHANGED <<map_wal, shard, poisoned, wal_lock>>

\* Key-SortedMap put: store.insert(key, new_sorted_map)
map_insert_new(t) ==
    /\ engine = "map"
    /\ th[t].pc = "insert_new"
    /\ shard = 0
    /\ map_store' = MapInsert(map_store, ConcKey,
                        MapInsert(EmptyMap, th[t].arg.search_key, th[t].arg.val))
    /\ Step(t, [Returns(t, <<"Unit">>) EXCEPT !.effects = @ + Effect(map_store, map_store')])
    /\ UNCHANGED <<map_wal, shard, poisoned, wal_lock>>

\* Key-SortedMap pop_first, pop_last: store.entry(key) and the pop of an
\* occupied entry, which comes before the WAL event
map_entry_pop(t) ==
    /\ th[t].op \in {"pop_first", "pop_last"}
    /\ IF ConcKey \in DOMAIN map_store
       THEN IF map_store[ConcKey] # EmptyMap
            THEN LET search_key == IF th[t].op = "pop_first"
                                   THEN FirstKey(map_store[ConcKey])
                                   ELSE LastKey(map_store[ConcKey])
                 IN  /\ map_store' = MapInsert(map_store, ConcKey,
                                         MapRemove(map_store[ConcKey], search_key))
                     /\ Step(t, [th[t] EXCEPT !.pc = "locked_log", !.val = search_key,
                                              !.effects = @ + 1])
                     /\ shard' = t
            ELSE /\ map_store' = map_store
                 /\ Step(t, [th[t] EXCEPT !.pc = "locked_log_delete"])
                 /\ shard' = t
       ELSE /\ map_store' = map_store
            /\ Step(t, Returns(t, None))
            /\ shard' = shard

\* Key-SortedMap remove_from_sorted_map(_callback): store.entry(key) and the
\* removal of the search key from the map of an occupied entry
map_entry_remove(t) ==
    /\ th[t].op \in {"remove_from_sorted_map", "remove_from_sorted_map_callback"}
    /\ IF ConcKey \in DOMAIN map_store
       THEN LET old_value == KvGet(map_store[ConcKey], th[t].arg)
                left == MapRemove(map_store[ConcKey], th[t].arg)
                ret == IF th[t].op = "remove_from_sorted_map" THEN old_value
                       ELSE <<"Unit">>
            IN  /\ map_store' = MapInsert(map_store, ConcKey, left)
                /\ IF left = EmptyMap
                   THEN /\ Step(t, [th[t] EXCEPT !.pc = "locked_log_delete", !.val = ret,
                                                 !.effects = @ + Effect(map_store, map_store')])
                        /\ shard' = t
                   ELSE /\ Step(t, [Returns(t, ret) EXCEPT
                                       !.effects = @ + Effect(map_store, map_store')])
                        /\ shard' = shard
       ELSE /\ map_store' = map_store
            /\ Step(t, Returns(t, IF th[t].op = "remove_from_sorted_map" THEN None
                                  ELSE <<"Unit">>))
            /\ shard' = shard

\* append_ordered_element with the entry given up before the WAL event
map_entry_append_unlocked(t) ==
    /\ th[t].op = "append_ordered_element"
    /\ map_store' = map_store
    /\ IF ConcKey \in DOMAIN map_store /\ map_store[ConcKey] # EmptyMap
          /\ LastKey(map_store[ConcKey]) = <<>>
       THEN /\ Step(t, [th[t] EXCEPT !.pc = "panicked"])
            /\ shard' = shard
       ELSE LET cur_num ==
                    IF ConcKey \notin DOMAIN map_store THEN 0
                    ELSE IF map_store[ConcKey] = EmptyMap THEN 0
                    ELSE LET last_search_key == LastKey(map_store[ConcKey])[1] IN
                         IF last_search_key[1] = TAG_USIZE
                         THEN last_search_key[2] + 1 ELSE 0
            IN  /\ Step(t, [th[t] EXCEPT !.pc = "locked_log",
                                         !.val = SearchKeyFromUsize(cur_num)])
                /\ shard' = shard

\* Key-SortedMap append_ordered_element: store.entry(key) and the position
\* read off the largest search key
map_entry_append(t) ==
    /\ th[t].op = "append_ordered_element"
    /\ map_store' = map_store
    /\ IF ConcKey \in DOMAIN map_store /\ map_store[ConcKey] # EmptyMap
          /\ LastKey(map_store[ConcKey]) = <<>>
       THEN /\ Step(t, [th[t] EXCEPT !.pc = "panicked"])
            /\ shard' = shard
       ELSE LET cur_num ==
                    IF ConcKey \notin DOMAIN map_store THEN 0
                    ELSE IF map_store[ConcKey] = EmptyMap THEN 0
                    ELSE LET last_search_key == LastKey(map_store[ConcKey])[1] IN
                         IF last_search_key[1] = TAG_USIZE
                         THEN last_search_key[2] + 1 ELSE 0
            IN  /\ Step(t, [th[t] EXCEPT !.pc = "locked_log",
                                         !.val = SearchKeyFromUsize(cur_num)])
                /\ shard' = t

map_entry(t) ==
    /\ engine = "map"
    /\ th[t].pc = "entry"
    /\ shard = 0
    /\ \/ map_entry_pop(t)
       \/ map_entry_remove(t)
       \/ map_entry_append(t)
    /\ UNCHANGED <<map_wal, poisoned, wal_lock>>

\* Key-SortedMap pop_first, pop_last, append_ordered_element: the WAL event,
\* entry held
map_locked_log(t) ==
    /\ engine = "map"
    /\ th[t].pc = "locked_log"
    /\ wal_lock = t
    /\ IF th[t].op = "append_ordered_element"
       THEN /\ map_wal' = store_put_to_map_event(map_wal, ConcKey, th[t].val, th[t].arg)
            /\ Step(t, [th[t] EXCEPT !.pc = "locked_install", !.records = @ + 1])
            /\ shard' = shard
       ELSE /\ map_wal' = store_remove_from_sorted_map_event(map_wal, ConcKey, th[t].val)
            /\ IF map_store[ConcKey] = EmptyMap
               THEN /\ Step(t, [th[t] EXCEPT !.pc = "locked_log_delete", !.records = @ + 1])
                    /\ shard' = shard
               ELSE /\ Step(t, [Returns(t, Some(<<th[t].val, ConcKey>>)) EXCEPT
                                   !.records = @ + 1])
                    /\ shard' = 0
    /\ UNCHANGED <<map_store, poisoned>>
    /\ wal_lock' = 0

\* Key-SortedMap append_ordered_element: map.insert / entry.insert, and the
\* entry is dropped
map_locked_install(t) ==
    /\ engine = "map"
    /\ th[t].pc = "locked_install"
    /\ map_store' = MapInsert(map_store, ConcKey,
                        MapInsert(IF ConcKey \in DOMAIN map_store
                                  THEN map_store[ConcKey] ELSE EmptyMap,
                                  th[t].val, th[t].arg))
    /\ shard' = 0
    /\ Step(t, [Returns(t, <<"Unit">>) EXCEPT !.effects = @ + Effect(map_store, map_store')])
    /\ UNCHANGED <<map_wal, poisoned, wal_lock>>

\* Key-SortedMap removals and pops: the DELETE event of the emptied key
map_locked_log_delete(t) ==
    /\ engine = "map"
    /\ th[t].pc = "locked_log_delete"
    /\ wal_lock = t
    /\ map_wal' = store_delete_event(map_wal, ConcKey)
    /\ Step(t, [th[t] EXCEPT !.pc = "locked_entry_remove", !.records = @ + 1])
    /\ UNCHANGED <<map_store, shard, poisoned>>
    /\ wal_lock' = 0

\* Key-SortedMap removals and pops: entry.remove(), then the callback
map_locked_entry_remove(t) ==
    /\ engine = "map"
    /\ th[t].pc = "locked_entry_remove"
    /\ map_store' = MapRemove(map_store, ConcKey)
    /\ shard' = 0
    /\ LET op == th[t].op
           ret == IF op \in {"pop_first", "pop_last"}
                  THEN IF th[t].effects = 0 THEN None
                       ELSE Some(<<th[t].val, ConcKey>>)
                  ELSE th[t].val
       IN  Step(t, [(IF op = "remove_from_sorted_map_callback"
                     THEN [th[t] EXCEPT !.pc = "callback"]
                     ELSE Returns(t, ret))
                    EXCEPT !.effects = @ + 1])
    /\ UNCHANGED <<map_wal, poisoned, wal_lock>>

\* Key-SortedMap remove_key: store.remove(key)
map_install(t) ==
    /\ engine = "map"
    /\ th[t].pc = "install"
    /\ shard = 0
    /\ map_store' = MapRemove(map_store, ConcKey)
    /\ Step(t, [Returns(t, <<"Unit">>) EXCEPT !.effects = @ + Effect(map_store, map_store')])
    /\ UNCHANGED <<map_wal, shard, poisoned, wal_lock>>

\* Key-SortedMap get_element, first, last, range_entries over the whole
\* range: store.get(key)
map_read(t) ==
    /\ engine = "map"
    /\ th[t].pc = "read"
    /\ shard = 0
    /\ LET op == th[t].op
           ret == IF ConcKey \notin DOMAIN map_store THEN None
                  ELSE LET m == map_store[ConcKey] IN
                       IF op = "get_element" THEN KvGet(m, th[t].arg)
                       ELSE IF op = "range_entries"
                       THEN range_entries_of(map_store, ConcKey,
                                <<"Unbounded">>, <<"Unbounded">>)
                       ELSE IF m = EmptyMap THEN None
                       ELSE IF op = "first" THEN Some(<<FirstKey(m), m[FirstKey(m)]>>)
                       ELSE Some(<<LastKey(m), m[LastKey(m)]>>)
       IN  Step(t, [Returns(t, ret) EXCEPT !.unlogged = Unlogged])
    /\ UNCHANGED <<map_store, map_wal, shard, poisoned, wal_lock>>

-----------------------------------------------------------------------------
(* The three stores under concurrent callers: a run exercises one store,    *)
(* from the store as constructed or from the store after its first calls,   *)
(* and each thread makes one call.  Threads are interchangeable, so calls   *)
(* are handed out in the order of the call lists.                           *)

\* the KV store after set_number(ConcKey, 255)
KvAfterSetNumber ==
    /\ kv_store = MapInsert(EmptyMap, ConcKey, ConcNumber)
    /\ kv_wal = store_put_event(new_vec_based, ConcKey, ConcNumber)
    /\ kv_last = KvLast("set_number", ConcKey, <<"Unit">>)
    /\ kv_ops = 0

\* the Key-Set store after append(ConcKey, 1)
SetAfterAppend ==
    /\ set_store = MapInsert(EmptyMap, ConcKey, {<<1>>})
    /\ set_wal = store_append_to_set_event(new_vec_based, ConcKey, <<1>>)
    /\ set_last = SetLast("append", ConcKey, <<1>>, None)
    /\ set_ops = 0

\* the Key-SortedMap store after put(ConcKey, [USIZE(0)], x) and
\* put(ConcKey, [USIZE(1)], x)
MapAfterTwoPuts ==
    /\ map_store = MapInsert(EmptyMap, ConcKey,
                       MapInsert(MapInsert(EmptyMap, SearchKeyFromUsize(0), <<120>>),
                                 SearchKeyFromUsize(1), <<120>>))
    /\ map_wal = store_put_to_map_event(
                     store_put_to_map_event(new_vec_based, ConcKey,
                                            SearchKeyFromUsize(0), <<120>>),
                     ConcKey, SearchKeyFromUsize(1), <<120>>)
    /\ map_last = MapLast("put", ConcKey, SearchKeyFromUsize(1), <<"Unit">>, None)
    /\ map_ops = 0

Calls(e) == IF e = "kv" THEN KvCalls ELSE IF e = "set" THEN SetCalls ELSE MapCalls

ConcInit ==
    /\ engine \in {"kv", "set", "map"}
    /\ KvInit \/ (engine = "kv" /\ KvAfterSetNumber)
    /\ SetInit \/ (engine = "set" /\ SetAfterAppend)
    /\ MapInit \/ (engine = "map" /\ MapAfterTwoPuts)
    /\ \E f \in [Threads -> 1..Len(Calls(engine))] :
           /\ \A t \in Threads \ {1} : f[t - 1] <= f[t]
           /\ th = [t \in Threads |-> Calls(engine)[f[t]]]
    /\ shard = 0
    /\ poisoned = FALSE
    /\ wal_lock = 0
    /\ tick = [t \in Threads |-> FALSE]
    /\ NoFiles
    /\ NoLog

\* key_removed_callback(&set_entry) / key_removed_callback(&search_key):
\* the caller's function runs on the argument of the call, after
\* entry.remove() has consumed the entry and released the shard
key_removed_callback(t) ==
    /\ th[t].pc = "callback"
    /\ Step(t, Returns(t, <<"Callback", th[t].arg>>))
    /\ UNCHANGED <<shard, poisoned, wal_lock, kv_store, kv_wal, set_store, set_wal,
                   map_store, map_wal>>

ConcKv(step) == step /\ UNCHANGED <<kv_last, kv_ops, setVars, mapVars, engine, recVars, logVars, key_cmp>>
ConcSet(step) == step /\ UNCHANGED <<set_last, set_ops, kvVars, mapVars, engine, recVars, logVars, key_cmp>>
ConcMap(step) == step /\ UNCHANGED <<map_last, map_ops, kvVars, setVars, engine, recVars, logVars, key_cmp>>

ConcNext ==
    \/ \E t \in Threads : ConcKv(kv_log(t))
    \/ \E t \in Threads : ConcKv(kv_install(t))
    \/ \E t \in Threads : ConcKv(kv_entry(t))
    \/ \E t \in Threads : ConcKv(kv_locked_log(t))
    \/ \E t \in Threads : ConcKv(kv_locked_install(t))
    \/ \E t \in Threads : ConcKv(kv_read(t))
    \/ \E t \in Threads : ConcSet(set_log(t))
    \/ \E t \in Threads : ConcSet(set_get_mut(t))
    \/ \E t \in Threads : ConcSet(set_insert_new(t))
    \/ \E t \in Threads : ConcSet(set_entry(t))
    \/ \E t \in Threads : ConcSet(set_locked_log_delete(t))
    \/ \E t \in Threads : ConcSet(set_locked_entry_remove(t))
    \/ \E t \in Threads : ConcSet(set_install(t))
    \/ \E t \in Threads : ConcSet(set_read(t))
    \/ \E t \in Threads : ConcMap(map_log(t))
    \/ \E t \in Threads : ConcMap(map_get_mut(t))
    \/ \E t \in Threads : ConcMap(map_insert_new(t))
    \/ \E t \in Threads : ConcMap(map_entry(t))
    \/ \E t \in Threads : ConcMap(map_locked_log(t))
    \/ \E t \in Threads : ConcMap(map_locked_install(t))
    \/ \E t \in Threads : ConcMap(map_locked_log_delete(t))
    \/ \E t \in Threads : ConcMap(map_locked_entry_remove(t))
    \/ \E t \in Threads : ConcMap(map_install(t))
    \/ \E t \in Threads : ConcMap(map_read(t))
    \/ \E t \in Threads :
           key_removed_callback(t) /\ UNCHANGED <<kv_last, kv_ops, set_last, set_ops,
                                                  map_last, map_ops, engine, recVars, logVars, key_cmp>>
    \/ \E t \in Threads :
           wal_state_write(t) /\ UNCHANGED <<kv_last, kv_ops, set_last, set_ops,
                                          map_last, map_ops, engine, recVars, logVars, key_cmp>>
    \/ \E t \in Threads :
           wal_panic(t) /\ UNCHANGED <<kv_last, kv_ops, set_last, set_ops,
                                       map_last, map_ops, engine, recVars, logVars, key_cmp>>

SpecConc == ConcInit /\ [][ConcNext]_vars

\* thread t is not waiting for a lock another thread holds: a WAL event needs
\* the WAL lock, a DashMap access the shard, and a call that has the entry
\* goes on
CanStep(t) ==
    IF th[t].pc \in LogSteps THEN wal_lock \in {0, t}
    ELSE IF th[t].pc \in {"install", "get_mut", "insert_new", "entry", "read"} THEN shard = 0
    ELSE th[t].pc \in {"locked_install", "locked_entry_remove", "callback"}

\* thread t takes a step of its call
ThreadMoves(t) == CanStep(t) /\ Ticks(t)

\* every thread is scheduled again and again, and a lock that stays free is
\* given to a thread that waits for it
SpecConcFair ==
    ConcInit /\ [][ConcNext]_vars /\ \A t \in Threads : WF_tick(ThreadMoves(t))

-----------------------------------------------------------------------------
(* init_new (key_value_store.rs, key_set_store.rs) on a directory that      *)
(* holds the WAL of an earlier run.  The process can die between any two    *)
(* steps; the files stay as they are and init_new runs again.               *)

\* the WAL files of earlier runs of the KV store
KvOldWals ==
    { store_put_event(new_vec_based, <<97>>, <<120>>),
      store_put_event(store_put_event(new_vec_based, <<97>>, <<120>>), <<>>, <<121>>),
      store_put_event(
          store_delete_event(store_put_event(new_vec_based, <<97>>, <<120>>), <<97>>),
          <<>>, <<121>>),
      store_put_event(store_put_event(new_vec_based, <<97>>, <<120>>), <<97>>, <<121>>),
      store_delete_event(store_put_event(new_vec_based, <<97>>, <<120>>), <<97>>) }

\* the WAL files of earlier runs of the Key-Set store
SetOldWals ==
    { store_append_to_set_event(new_vec_based, <<97>>, <<1>>),
      store_append_to_set_event(
          store_append_to_set_event(new_vec_based, <<97>>, <<1>>), <<97>>, <<2>>),
      store_append_to_set_event(
          store_append_to_set_event(new_vec_based, <<97>>, <<1>>), <<98>>, <<1>>),
      \* a run that ended inside remove_from_set(a, 1), between its two records
      store_remove_from_set_event(
          store_append_to_set_event(new_vec_based, <<97>>, <<1>>), <<97>>, <<1>>),
      store_remove_from_set_event(
          store_append_to_set_event(
              store_append_to_set_event(new_vec_based, <<97>>, <<1>>), <<98>>, <<1>>),
          <<97>>, <<1>>),
      \* a run that ended after remove_from_set(a, 1)
      store_delete_event(
          store_remove_from_set_event(
              store_append_to_set_event(new_vec_based, <<97>>, <<1>>), <<97>>, <<1>>),
          <<97>>) }

\* the process as it enters init_new
ProcStart ==
    [pc |-> "start", found |-> FALSE, store |-> EmptyMap, offset |-> U32Zero,
     snapshot |-> EmptyMap, todo |-> EmptyMap, cur |-> None]

RecInit ==
    /\ KvInit /\ SetInit /\ MapInit /\ NoThreads /\ NoLog
    /\ engine \in {"kv", "set"}
    /\ \E w \in (IF engine = "kv" THEN KvOldWals ELSE SetOldWals) :
           /\ fs = [wal |-> Some(w.writer), tmp |-> None]
           /\ old_wal = w.writer
           /\ original = IF engine = "kv" THEN read_forward(w.writer).map
                         ELSE read_for_set(w.writer).map
    /\ proc = ProcStart
    /\ crashes = 0

\* wal_file_path.exists(); an empty WAL is removed, any other is renamed to
\* the temp name (rename replaces a temp file that is already there)
init_new_found ==
    /\ proc.pc = "start"
    /\ IF fs.wal = None
       THEN /\ fs' = fs
            /\ proc' = [proc EXCEPT !.pc = "create", !.found = FALSE]
       ELSE IF Len(fs.wal[2]) = 0
       THEN /\ fs' = [fs EXCEPT !.wal = None]
            /\ proc' = [proc EXCEPT !.pc = "create", !.found = FALSE]
       ELSE /\ fs' = [wal |-> None, tmp |-> fs.wal]
            /\ proc' = [proc EXCEPT !.pc = "create", !.found = TRUE]
    /\ UNCHANGED <<original, old_wal, crashes>>

\* WalStorage::new_file_based: create_new fails on a file that exists
new_file_based ==
    /\ proc.pc = "create"
    /\ IF fs.wal # None
       THEN /\ fs' = fs
            /\ proc' = [proc EXCEPT !.pc = "failed"]
       ELSE /\ fs' = [fs EXCEPT !.wal = Some(<<>>)]
            /\ proc' = [proc EXCEPT !.pc = IF proc.found THEN "restore" ELSE "running",
                                    !.offset = U32Zero]
    /\ UNCHANGED <<original, old_wal, crashes>>

\* File::open of the temp file and the replay of its bytes: collect for the
\* KV store, read_for_set for the Key-Set store
init_new_restore ==
    /\ proc.pc = "restore"
    /\ IF fs.tmp = None
       THEN proc' = [proc EXCEPT !.pc = "failed"]
       ELSE LET map == IF engine = "kv" THEN collect(fs.tmp[2])
                       ELSE read_for_set(fs.tmp[2])
            IN  IF map.kind # "Ok"
                THEN proc' = [proc EXCEPT !.pc = "failed"]
                ELSE proc' = [proc EXCEPT !.pc = "replay", !.snapshot = map.map,
                                          !.todo = map.map]
    /\ UNCHANGED <<fs, original, old_wal, crashes>>

\* the loop of init_new with store_put_event left out
init_new_replay_kv_no_log ==
    /\ proc.pc = "replay"
    /\ engine = "kv"
    /\ \E k \in DOMAIN proc.todo :
           /\ fs' = fs
           /\ proc' = [proc EXCEPT !.store = MapInsert(proc.store, k, proc.todo[k]),
                                   !.todo = MapRemove(proc.todo, k)]
    /\ UNCHANGED <<original, old_wal, crashes>>

\* KV: one round of the loop over the snapshot, in the map's own order
init_new_replay_kv ==
    /\ proc.pc = "replay"
    /\ engine = "kv"
    /\ \E k \in DOMAIN proc.todo :
           LET w == store_put_event(WalState(proc.offset, fs.wal[2]), k, proc.todo[k]) IN
           /\ fs' = [fs EXCEPT !.wal = Some(w.writer)]
           /\ proc' = [proc EXCEPT !.offset = w.offset,
                                   !.store = MapInsert(proc.store, k, proc.todo[k]),
                                   !.todo = MapRemove(proc.todo, k)]
    /\ UNCHANGED <<original, old_wal, crashes>>

\* Key-Set: one round of the inner loop over the elements of an outer key;
\* the set goes into the store after its last element is logged, and a set
\* the snapshot holds empty goes in with no round and no record
init_new_replay_set ==
    /\ proc.pc = "replay"
    /\ engine = "set"
    /\ \/ \E k \in DOMAIN proc.todo :
              /\ proc.cur = None
              /\ proc.snapshot[k] = {}
              /\ fs' = fs
              /\ proc' = [proc EXCEPT !.store = MapInsert(proc.store, k, {}),
                                      !.todo = MapRemove(proc.todo, k)]
       \/ \E k \in DOMAIN proc.todo, e \in UNION {proc.todo[x] : x \in DOMAIN proc.todo} :
           /\ proc.cur \in {None, Some(k)}
           /\ e \in proc.todo[k]
           /\ LET w == store_append_to_set_event(WalState(proc.offset, fs.wal[2]), k, e) IN
              /\ fs' = [fs EXCEPT !.wal = Some(w.writer)]
              /\ IF proc.todo[k] = {e}
                 THEN proc' = [proc EXCEPT !.offset = w.offset,
                                           !.store = MapInsert(proc.store, k, proc.snapshot[k]),
                                           !.todo = MapRemove(proc.todo, k),
                                           !.cur = None]
                 ELSE proc' = [proc EXCEPT !.offset = w.offset,
                                           !.todo = MapInsert(proc.todo, k, proc.todo[k] \ {e}),
                                           !.cur = Some(k)]
    /\ UNCHANGED <<original, old_wal, crashes>>

\* the loop is over: the temp file is removed and init_new returns
init_new_remove_tmp ==
    /\ proc.pc = "replay"
    /\ proc.todo = EmptyMap
    /\ fs' = [fs EXCEPT !.tmp = None]
    /\ proc' = [proc EXCEPT !.pc = "running"]
    /\ UNCHANGED <<original, old_wal, crashes>>

\* the process dies; the next one enters init_new on the same directory
crash ==
    /\ proc.pc \notin {"none", "start"}
    /\ crashes < MaxCrashes
    /\ crashes' = crashes + 1
    /\ proc' = ProcStart
    /\ UNCHANGED <<fs, original, old_wal>>

RecStep(step) == step /\ UNCHANGED <<kvVars, setVars, mapVars, engine, concVars, logVars, key_cmp>>

RecNext ==
    \/ RecStep(init_new_found)
    \/ RecStep(new_file_based)
    \/ RecStep(init_new_restore)
    \/ RecStep(init_new_replay_kv)
    \/ RecStep(init_new_replay_set)
    \/ RecStep(init_new_remove_tmp)
    \/ RecStep(crash)

SpecRecovery == RecInit /\ [][RecNext]_vars

-----------------------------------------------------------------------------
(* The records of a log, parsed front to back as build_action frames them *)

RECURSIVE WalRecordsFrom(_, _)
WalRecordsFrom(bytes, offset) ==
    IF ~(offset < Len(bytes)) THEN <<>>
    ELSE LET b == build_action(offset, bytes) IN
         IF ~b.ok THEN <<>> ELSE <<b.action>> \o WalRecordsFrom(bytes, b.offset)

WalRecords(bytes) == WalRecordsFrom(bytes, 0)


-----------------------------------------------------------------------------
(* A WalStorage on its own: the four store_*_event calls of wal/mod.rs, on  *)
(* a new log and on a log that is already long.  Of a long log only the     *)
(* records appended from here on are kept in wal.writer; the bytes before   *)
(* them are counted in wal_sunk.                                            *)

WalKeys == {<<97>>, <<98>>}
WalVals == {<<1>>, <<2>>}

\* offset of a WalStorage whose sink holds 2^32 - 32 bytes of records
LongLogOffset == <<224, 255, 255, 255>>

NoDamage(bytes) == [bytes |-> bytes, damage |-> "none", record |-> 0]

WalInit ==
    /\ KvInit /\ SetInit /\ MapInit /\ engine = "none" /\ NoThreads /\ NoFiles
    /\ \/ wal = new_vec_based /\ wal_sunk = U64Zero
       \/ wal = WalState(LongLogOffset, <<>>) /\ wal_sunk = LongLogOffset \o U32Zero
    /\ wal_ops = 0
    /\ log = NoDamage(<<>>)
    /\ key_cmp = <<>>

\* One store_*_event call: wal_state.write().unwrap() panics on a poisoned
\* lock; write() appends the record; increment_offset sets the counter, or, in
\* a build with overflow checks, panics on a sum past u32::MAX while the lock
\* is held.  `a` is the record the call builds, `w` the state it returns with.
WalCall(a, w) ==
    /\ ~poisoned
    /\ wal_ops < MaxWalOps
    /\ log.damage = "none"
    /\ \/ /\ wal' = w
          /\ poisoned' = poisoned
       \/ /\ increment_offset_checked(a).overflow
          /\ wal' = WalState(wal.offset, write(wal.writer, a))
          /\ poisoned' = TRUE
    /\ wal_ops' = wal_ops + 1
    /\ log' = NoDamage(IF wal_sunk = U64Zero THEN wal'.writer ELSE <<>>)
    /\ UNCHANGED <<wal_sunk, th, shard, wal_lock, tick>>

WalStorePut ==
    \E key \in WalKeys, value \in WalVals :
        WalCall(put_action(wal.offset, KeyValueData(key, value)),
                store_put_event(wal, key, value))

WalStoreDelete ==
    \E key \in WalKeys :
        WalCall(delete_action(wal.offset, key), store_delete_event(wal, key))

WalStoreAppendToSet ==
    \E key \in WalKeys, set_key \in WalVals :
        WalCall(append_to_set(wal.offset, KeyValueData(key, set_key)),
                store_append_to_set_event(wal, key, set_key))

WalStoreRemoveFromSet ==
    \E key \in WalKeys, value \in WalVals :
        WalCall(remove_from_set(wal.offset, KeyValueData(key, value)),
                store_remove_from_set_event(wal, key, value))

\* Damage to the log between its writing and its reading: one bit of a
\* record's crc field, one or two bits of a byte of its data (the first
\* byte, the last byte of the key, the last byte), a data_size field or a
\* start_offset trailer that reaches past the end of the bytes, a
\* start_offset trailer that names a later record, or a file cut to fewer
\* bytes than one trailer.
FlipBit(b) == IF b % 2 = 0 THEN b + 1 ELSE b - 1

\* b with its two low bits flipped
FlipTwoBits(b) == b - (b % 4) + (3 - (b % 4))

\* position in the data of the last byte of the key: the data of a DELETE
\* is the key, the data of the other records begins with the u64 length of
\* the key and the key
DataKeyEnd(a) ==
    IF a.act_type = DELETE_ACT THEN a.data_size
    ELSE 8 + u64_len_from_bytes(SubSeq(a.data, 1, 8))

RecordLen(a) == FIXED_BLOCK_LEN + a.data_size

RECURSIVE RecordStart(_, _)
RecordStart(records, r) ==
    IF r = 1 THEN 0 ELSE RecordStart(records, r - 1) + RecordLen(records[r - 1])

\* bytes with the bytes from position `at` (zero-based) on replaced by `new`
Overwrite(bytes, at, new) ==
    [i \in 1..Len(bytes) |->
        IF i > at /\ i <= at + Len(new) THEN new[i - at] ELSE bytes[i]]

Damage(kind, r, bytes) ==
    /\ ~poisoned
    /\ wal_sunk = U64Zero
    /\ log.damage = "none"
    /\ log' = [bytes |-> bytes, damage |-> kind, record |-> r]
    /\ UNCHANGED <<wal, wal_sunk, wal_ops, concVars>>

DamageCrc ==
    LET records == WalRecords(log.bytes) IN
    \E r \in 1..Len(records) :
        LET at == RecordStart(records, r) + ACT_TYPE_FIELD_LEN IN
        Damage("crc", r, Overwrite(log.bytes, at, <<FlipBit(log.bytes[at + 1])>>))

DamageData ==
    LET records == WalRecords(log.bytes) IN
    \E r \in 1..Len(records) :
    \E j \in {1, DataKeyEnd(records[r]), records[r].data_size} :
        LET at == RecordStart(records, r) + ACT_TYPE_FIELD_LEN + CRC32_FIELD_LEN
                      + DATA_SIZE_FIELD_LEN + j - 1 IN
        \E new \in {FlipBit(log.bytes[at + 1]), FlipTwoBits(log.bytes[at + 1])} :
            Damage("data", r, Overwrite(log.bytes, at, <<new>>))

DamageSize ==
    LET records == WalRecords(log.bytes) IN
    \E r \in 1..Len(records) :
        LET at == RecordStart(records, r) + ACT_TYPE_FIELD_LEN + CRC32_FIELD_LEN IN
        Damage("size", r, Overwrite(log.bytes, at,
                   u32_to_ne_bytes(records[r].data_size + Len(log.bytes))))

DamageLink ==
    LET records == WalRecords(log.bytes) IN
    \E r \in 1..Len(records) :
        LET at == RecordStart(records, r) + RecordLen(records[r])
                      - BLOCK_START_OFFSET_LEN IN
        \E to \in {Len(log.bytes)} \cup
                   {RecordStart(records, q) : q \in (r + 1)..Len(records)} :
            Damage("link", r, Overwrite(log.bytes, at, u32_to_ne_bytes(to)))

Cut ==
    \E n \in 0..(BLOCK_START_OFFSET_LEN - 1) :
        /\ n <= Len(log.bytes)
        /\ Damage("cut", 0, SubSeq(log.bytes, 1, n))

LogStep(step) == step /\ UNCHANGED <<kvVars, setVars, mapVars, engine, recVars, key_cmp>>

WalNext ==
    \/ LogStep(WalStorePut)
    \/ LogStep(WalStoreDelete)
    \/ LogStep(WalStoreAppendToSet)
    \/ LogStep(WalStoreRemoveFromSet)
    \/ LogStep(DamageCrc)
    \/ LogStep(DamageData)
    \/ LogStep(DamageSize)
    \/ LogStep(DamageLink)
    \/ LogStep(Cut)

SpecWal == WalInit /\ [][WalNext]_vars

-----------------------------------------------------------------------------
(* Concurrent callers of one WalStorage.  A store_*_event call takes the   *)
(* lock (wal_state_write), builds its StoredAction from the offset counter, *)
(* runs the file.write calls of write() and then increment_offset; the     *)
(* guard is dropped when the call returns or panics.                        *)

WalCaller(op, key, value) ==
    [op |-> op, key |-> key, value |-> value, pc |-> "log",
     action |-> StoredAction(DELETE_ACT, U32Zero, 0, <<>>, U32Zero), turn |-> 0]

WalCalls ==
    << WalCaller("store_put_event", <<97>>, <<1>>),
       WalCaller("store_put_event", <<98>>, <<1, 2>>),
       WalCaller("store_delete_event", <<97>>, <<>>),
       WalCaller("store_append_to_set_event", <<97>>, <<1>>),
       WalCaller("store_remove_from_set_event", <<97>>, <<1>>) >>

WalConcInit ==
    /\ KvInit /\ SetInit /\ MapInit /\ engine = "none" /\ NoFiles
    /\ \E f \in [Threads -> 1..Len(WalCalls)] :
           /\ \A t \in Threads \ {1} : f[t - 1] <= f[t]
           /\ th = [t \in Threads |-> WalCalls[f[t]]]
    /\ shard = 0
    /\ poisoned = FALSE
    /\ wal_lock = 0
    /\ tick = [t \in Threads |-> FALSE]
    /\ \/ wal = new_vec_based /\ wal_sunk = U64Zero
       \/ wal = WalState(LongLogOffset, <<>>) /\ wal_sunk = LongLogOffset \o U32Zero
    /\ wal_ops = 0
    /\ log = NoDamage(<<>>)
    /\ key_cmp = <<>>

\* the StoredAction a call builds from the offset counter
CallerAction(c, offset) ==
    IF c.op = "store_put_event" THEN put_action(offset, KeyValueData(c.key, c.value))
    ELSE IF c.op = "store_delete_event" THEN delete_action(offset, c.key)
    ELSE IF c.op = "store_append_to_set_event"
    THEN append_to_set(offset, KeyValueData(c.key, c.value))
    ELSE remove_from_set(offset, KeyValueData(c.key, c.value))

\* a call that lets go of the lock once it has read the offset
stored_action_lock_dropped(t) ==
    /\ th[t].pc = "log"
    /\ wal_lock = t
    /\ Step(t, [th[t] EXCEPT !.pc = "write", !.action = CallerAction(th[t], wal.offset),
                             !.turn = wal_ops + 1])
    /\ wal_ops' = wal_ops + 1
    /\ wal_lock' = 0
    /\ UNCHANGED <<wal, poisoned>>

\* StoredAction::put_action(w_lock.offset.borrow(), ..) and its siblings;
\* turn is the call's place in the order of lock acquisitions
stored_action(t) ==
    /\ th[t].pc = "log"
    /\ wal_lock = t
    /\ Step(t, [th[t] EXCEPT !.pc = "write", !.action = CallerAction(th[t], wal.offset),
                             !.turn = wal_ops + 1])
    /\ wal_ops' = wal_ops + 1
    /\ UNCHANGED <<wal, poisoned, wal_lock>>

\* write(): act_type, crc, data_size
write_head(t) ==
    /\ th[t].pc = "write"
    /\ wal' = WalState(wal.offset, wal.writer \o RecordHead(th[t].action))
    /\ Step(t, [th[t] EXCEPT !.pc = "write_data"])
    /\ UNCHANGED <<wal_ops, poisoned, wal_lock>>

\* write(): data, start_offset, flush
write_tail(t) ==
    /\ th[t].pc = "write_data"
    /\ wal' = WalState(wal.offset, wal.writer \o RecordTail(th[t].action))
    /\ Step(t, [th[t] EXCEPT !.pc = "increment_offset"])
    /\ UNCHANGED <<wal_ops, poisoned, wal_lock>>

\* increment_offset and the return of the call, which drops the guard; in a
\* build with overflow checks a sum past u32::MAX panics with the lock held
caller_increment_offset(t) ==
    /\ th[t].pc = "increment_offset"
    /\ \/ /\ wal' = WalState(increment_offset(th[t].action), wal.writer)
          /\ Step(t, [th[t] EXCEPT !.pc = "done"])
          /\ poisoned' = poisoned
       \/ /\ increment_offset_checked(th[t].action).overflow
          /\ wal' = wal
          /\ Step(t, [th[t] EXCEPT !.pc = "panicked"])
          /\ poisoned' = TRUE
    /\ wal_lock' = 0
    /\ UNCHANGED wal_ops

WalConcStep(step) ==
    /\ step
    /\ UNCHANGED <<kvVars, setVars, mapVars, engine, recVars, shard, wal_sunk, log, key_cmp>>

WalConcNext ==
    \/ \E t \in Threads : wal_state_write(t) /\ UNCHANGED <<kv_last, kv_ops, set_last, set_ops,
                                 map_last, map_ops, engine, recVars, logVars, key_cmp>>
    \/ \E t \in Threads : wal_panic(t) /\ UNCHANGED <<kv_last, kv_ops, set_last, set_ops,
                                 map_last, map_ops, engine, recVars, logVars, key_cmp>>
    \/ \E t \in Threads : WalConcStep(stored_action(t))
    \/ \E t \in Threads : WalConcStep(write_head(t))
    \/ \E t \in Threads : WalConcStep(write_tail(t))
    \/ \E t \in Threads : WalConcStep(caller_increment_offset(t))

SpecWalConc == WalConcInit /\ [][WalConcNext]_vars

-----------------------------------------------------------------------------
(* Claims about the KV store and its log, one caller (SpecKV) *)

\* C1: after any sequence of put, compute, increment_or_init, decrement,
\* set_number and remove calls on a store created empty, collect applied to
\* the WAL bytes returns the in-memory map (stated for sequences of at
\* least one call).
C1_CollectEqualsMemory ==
    kv_ops >= 1 => collect(kv_wal.writer) = Returned(kv_store)

\* C10: on a log of one or more PUT and DELETE records written by the WAL
\* writer, read_backward returns Ok(m) with m the map read_forward returns.
C10_BackwardEqualsForward ==
    kv_wal.writer # <<>> =>
        LET back == read_backward(kv_wal.writer)
            forw == read_forward(kv_wal.writer)
        IN  back.kind = "Ok" /\ forw.kind = "Ok" /\ back.map = forw.map

\* C10 witness: a log of three records ending in the DELETE of a key that an
\* earlier PUT of the same log wrote, with the other key still live
C10_Witness ==
    /\ kv_ops = 3
    /\ kv_last.op = "remove"
    /\ \E i \in 1..Len(WalRecords(kv_wal.writer)) :
           LET r == WalRecords(kv_wal.writer)[i] IN
           r.act_type = PUT_ACT /\ bincode_deserialize(r.data).key = kv_last.key
    /\ kv_store # EmptyMap
    /\ read_backward(kv_wal.writer) = Returned(kv_store)

-----------------------------------------------------------------------------
(* Claims about the Key-Set store and its log, one caller (SpecSet) *)

\* C2: after any sequence of append, remove_from_set, remove_from_set_callback
\* and remove_key calls on a store created empty, read_for_set applied to the
\* WAL bytes returns exactly the in-memory map outer key -> set of elements.
C2_ReadForSetEqualsMemory ==
    read_for_set(set_wal.writer) = Returned(set_store)

\* C2 witness: the third call removed the last element of an outer key, so
\* the log ends in SET_REMOVE, DELETE, and the other outer key is still live
C2_Witness ==
    /\ set_ops = 3
    /\ set_last.op \in {"remove_from_set", "remove_from_set_callback"}
    /\ set_last.key \notin DOMAIN set_store
    /\ set_store # EmptyMap
    /\ Len(WalRecords(set_wal.writer)) = 4
    /\ WalRecords(set_wal.writer)[4].act_type = DELETE_ACT

-----------------------------------------------------------------------------
(* Claims about the collection stores, one caller (SpecColl) *)

\* C5: in the Key-Set store and the Key-SortedMap store, in every state
\* reachable through public operations, compute, compute_if_present and
\* compute_if_absent with any callback included, no outer key is mapped to an
\* empty inner set or an empty inner sorted map.
C5_NoEmptyContainer ==
    /\ \A key \in DOMAIN set_store : set_store[key] # {}
    /\ \A key \in DOMAIN map_store : map_store[key] # EmptyMap

\* what C6 asks of a call that removed an element of the container of key:
\* last says whether it was the only one, removal is the type of the
\* element-removal record
C6_Outcome(key, last, removal, store_before, store_after, wal_before, wal_after) ==
    LET before == WalRecords(wal_before.writer)
        after == WalRecords(wal_after.writer)
        n == Len(before)
    IN  /\ Len(after) >= n + 1
        /\ SubSeq(after, 1, n) = before
        /\ after[n + 1].act_type = removal
        /\ IF last
           THEN /\ key \notin DOMAIN store_after
                /\ Cardinality(DOMAIN store_after) = Cardinality(DOMAIN store_before) - 1
                /\ Len(after) = n + 2
                /\ after[n + 2].act_type = DELETE_ACT
                /\ after[n + 2].data = key
           ELSE /\ key \in DOMAIN store_after
                /\ Cardinality(DOMAIN store_after) = Cardinality(DOMAIN store_before)
                /\ Len(after) = n + 1

C6_SetStep ==
    (/\ engine = "set"
     /\ set_ops' = set_ops + 1
     /\ set_last'.op \in {"remove_from_set", "remove_from_set_callback"}
     /\ set_last'.key \in DOMAIN set_store
     /\ set_last'.elem \in set_store[set_last'.key])
    => C6_Outcome(set_last'.key, set_store[set_last'.key] = {set_last'.elem},
                  SET_REMOVE_ACT, set_store, set_store', set_wal, set_wal')

C6_MapRemoveStep ==
    (/\ engine = "map"
     /\ map_ops' = map_ops + 1
     /\ map_last'.op \in {"remove_from_sorted_map", "remove_from_sorted_map_callback"}
     /\ map_last'.key \in DOMAIN map_store
     /\ map_last'.search_key \in DOMAIN map_store[map_last'.key])
    => C6_Outcome(map_last'.key, DOMAIN map_store[map_last'.key] = {map_last'.search_key},
                  PUT_ACT, map_store, map_store', map_wal, map_wal')

C6_MapPopStep ==
    (/\ engine = "map"
     /\ map_ops' = map_ops + 1
     /\ map_last'.op \in {"pop_first", "pop_last"}
     /\ map_last'.key \in DOMAIN map_store
     /\ map_store[map_last'.key] # EmptyMap)
    => C6_Outcome(map_last'.key, Cardinality(DOMAIN map_store[map_last'.key]) = 1,
                  PUT_ACT, map_store, map_store', map_wal, map_wal')

\* C6: whenever remove_from_set, remove_from_set_callback,
\* remove_from_sorted_map, remove_from_sorted_map_callback, pop_first or
\* pop_last removes the only remaining element of an inner container, on
\* return the outer key is absent (size() is one less) and the WAL has gained
\* the element-removal record followed by a DELETE record whose payload is
\* that outer key; when other elements remain, the outer key stays and the
\* WAL has gained the element-removal record alone.
C6_LastRemovalDropsKey == [][C6_SetStep /\ C6_MapRemoveStep /\ C6_MapPopStep]_vars

\* C6 witness: two pop_last calls emptied the two-entry sorted map of CollKey;
\* the outer key is gone, the other outer key is not, and the log ends in the
\* removal record of the last entry and the DELETE of CollKey
C6_Witness ==
    /\ engine = "map"
    /\ map_ops = 2
    /\ map_last.op = "pop_last"
    /\ map_last.ret # None
    /\ DOMAIN map_store = {OtherKey}
    /\ LET recs == WalRecords(map_wal.writer) IN
       /\ Len(recs) = 6
       /\ recs[4].data = SerializeSortedMapKey(CollKey, <<Key_Str(<<115>>)>>)
       /\ recs[5].data = SerializeSortedMapKey(CollKey, SearchKeyFromUsize(0))
       /\ recs[6].act_type = DELETE_ACT
       /\ recs[6].data = CollKey

-----------------------------------------------------------------------------
(* Claims about concurrent callers (SpecConc) *)

AllReturned == \A t \in Threads : th[t].pc = "done"

\* C3: for every interleaving of concurrent put, remove, set_number and
\* compute calls on the same key of the KV store, once all calls have
\* returned the in-memory value of the key (or its absence) is what replaying
\* the WAL yields.
C3_MemoryEqualsReplay ==
    (/\ engine = "kv"
     /\ AllReturned
     /\ \A t \in Threads : th[t].op \in {"put", "remove", "set_number", "compute"})
    => read_forward(kv_wal.writer) = Returned(kv_store)

\* C7: in every interleaving, no read (get, contains, get_hashset,
\* contains_in_set, get_element, first, last, range_entries) happens in a
\* state where a WAL-logging mutation has an effect in memory whose record is
\* not yet appended to the WAL.
C7_NoReadOfUnloggedEffect ==
    \A t \in DOMAIN th : th[t].unlogged = {}

\* C8: a mutating operation whose WAL append fails (the write panics) has not
\* changed the in-memory container of its outer key.
C8_FailedWriteLeavesMemory ==
    \A t \in DOMAIN th : th[t].pc = "wal_panicked" => th[t].effects = 0

RECURSIVE U64AddOnes(_, _)
U64AddOnes(v, n) == IF n = 0 THEN v ELSE U64AddOnes(U64Add(v, U64One).sum, n - 1)

\* C9: when every thread has called increment_or_init(key, 1) on a key that
\* was absent (or held the number v) and all calls have returned, the key
\* holds N (v + N) for N the number of calls, the returned values are pairwise
\* distinct, the last record of the WAL is the PUT of N (v + N) for the key,
\* and replaying the WAL yields the same number.
C9_AtomicCounter ==
    (/\ engine = "kv"
     /\ AllReturned
     /\ \A t \in Threads : th[t].op = "increment_or_init")
    => LET v == IF kv_last.op = "set_number" THEN ConcNumber ELSE U64Zero
           expected == U64AddOnes(v, NThreads)
           recs == WalRecords(kv_wal.writer)
       IN  /\ KvGet(kv_store, ConcKey) = Some(expected)
           /\ \A t \in Threads : th[t].ret[1] = "Ok"
           /\ \A t \in Threads, u \in Threads : t # u => th[t].ret # th[u].ret
           /\ recs[Len(recs)].act_type = PUT_ACT
           /\ bincode_deserialize(recs[Len(recs)].data) =
                  [ok |-> TRUE, key |-> ConcKey, value |-> expected]
           /\ read_forward(kv_wal.writer) = Returned(kv_store)

\* C9 witness: every thread has incremented the key that held 255 and has
\* returned; the key holds 255 + N
C9_Witness ==
    /\ engine = "kv"
    /\ AllReturned
    /\ \A t \in Threads : th[t].op = "increment_or_init"
    /\ kv_last.op = "set_number"
    /\ KvGet(kv_store, ConcKey) = Some(U64AddOnes(ConcNumber, NThreads))

-----------------------------------------------------------------------------
(* Claims about recovery (SpecRecovery) *)

\* C4: however often init_new was interrupted before, an init_new that
\* returns yields a store that holds every key of the original WAL with the
\* value (the set) the original WAL held for it.
C4_RecoveryLosesNothing ==
    proc.pc = "running" =>
        \A k \in DOMAIN original : k \in DOMAIN proc.store /\ proc.store[k] = original[k]

-----------------------------------------------------------------------------
(* Comparing SearchKeys (model.rs): cmp on two keys of one component each,  *)
(* the components drawn from every variant of enum Key.                     *)

KeySamples ==
    { <<TAG_BOOL, 0>>, <<TAG_BOOL, 1>>,
      <<TAG_I, -128>>, <<TAG_I, 127>>,
      <<TAG_U8, 0>>, <<TAG_U8, 255>>,
      <<TAG_I16, -1>>, <<TAG_I16, 1>>,
      <<TAG_U16, 0>>, <<TAG_U16, 65535>>,
      <<TAG_I32, -1>>, <<TAG_I32, 1>>,
      <<TAG_U32, 0>>, <<TAG_U32, 1>>,
      <<TAG_I64, -1>>, <<TAG_I64, 1>>,
      <<TAG_U64, 0>>, <<TAG_U64, 1>>,
      <<TAG_USIZE, 0>>, <<TAG_USIZE, 1>>,
      <<TAG_I128, 0>>, <<TAG_I128, 1>>,
      <<TAG_U128, 0>>, <<TAG_U128, 1>>,
      <<TAG_CHAR, 97>>, <<TAG_CHAR, 98>>,
      <<TAG_STR, <<>>>>, <<TAG_STR, <<97>>>>, <<TAG_STR, <<97, 98>>>>,
      <<TAG_BYTES, <<>>>>, <<TAG_BYTES, <<0>>>>, <<TAG_BYTES, <<255>>>> }

\* impl Ord for SearchKey: self.0.cmp(&other.0)
cmp(self, other) ==
    /\ key_cmp' = [self |-> self, other |-> other, ordering |-> SearchKeyCmp(self, other)]
    /\ UNCHANGED <<kvVars, setVars, mapVars, engine, concVars, recVars, logVars>>

KeyCompare == \E a \in KeySamples, b \in KeySamples : cmp(<<a>>, <<b>>)

KeysNext == KeyCompare

SpecKeys == Init /\ [][KeysNext]_vars

-----------------------------------------------------------------------------
(* Claims about the readers on a damaged log (SpecWal) *)

\* the log holds PUT and DELETE records only, as the KV store writes it
KvLog == \A i \in 1..Len(WalRecords(wal.writer)) :
             WalRecords(wal.writer)[i].act_type \in {PUT_ACT, DELETE_ACT}

\* C11: when the record the backward scan meets first, the last of a KV log,
\* has a crc that does not match its data, a payload that cannot be decoded,
\* or a length or back-link that points outside the bytes, and when the bytes
\* are shorter than one trailer, read_backward returns Err and collect
\* returns what read_forward returns on the same bytes.
C11_BackwardErrThenForward ==
    (/\ KvLog
     /\ \/ log.damage = "cut"
        \/ /\ log.damage \in {"crc", "data", "size", "link"}
           /\ log.record = Len(WalRecords(wal.writer)))
    => /\ read_backward(log.bytes).kind = "Err"
       /\ collect(log.bytes) = read_forward(log.bytes)

\* C12: on a log in which some record's crc field differs from the CRC-32 of
\* its data field, neither read_forward nor read_for_set returns a snapshot
\* (the records are the ones build_action frames from the front of the log).
C12_ForwardDetectsCorruption ==
    (\E i \in 1..Len(WalRecords(log.bytes)) :
         crc(WalRecords(log.bytes)[i].data) # WalRecords(log.bytes)[i].crc)
    => /\ read_forward(log.bytes).kind # "Ok"
       /\ read_for_set(log.bytes).kind # "Ok"

\* a log of two DELETE records, which both readers accept, with one bit of the
\* second record's data flipped: both readers stop at that record
C12_Witness ==
    /\ log.damage = "data"
    /\ log.record = 2
    /\ Len(WalRecords(log.bytes)) = 2
    /\ \A i \in 1..2 : WalRecords(log.bytes)[i].act_type = DELETE_ACT
    /\ crc(WalRecords(log.bytes)[1].data) = WalRecords(log.bytes)[1].crc
    /\ crc(WalRecords(log.bytes)[2].data) # WalRecords(log.bytes)[2].crc
    /\ read_forward(wal.writer).kind = "Ok"
    /\ read_for_set(wal.writer).kind = "Ok"
    /\ read_forward(log.bytes) = Panicked
    /\ read_for_set(log.bytes) = Panicked

-----------------------------------------------------------------------------
(* Claims about the WAL writer (SpecWal) *)

\* a u32 as the u64 of the same value
Widen(b) == b \o U32Zero

\* C13: after any sequence of store_put_event, store_delete_event,
\* store_append_to_set_event and store_remove_from_set_event calls the log
\* holds one record per call, the first record of the log has start_offset
\* 0, every record's start_offset is the byte position of the record's first
\* byte, each next record starts at the previous start_offset + data_size +
\* FIXED_BLOCK_LEN, and the writer's offset counter is the length of the log.
C13_Contiguous ==
    LET records == WalRecords(wal.writer)
        n       == Len(records)
    IN
    /\ n = wal_ops
    /\ (wal_sunk = U64Zero /\ n >= 1) => records[1].start_offset = U32Zero
    /\ \A i \in 1..n :
           Widen(records[i].start_offset)
               = U64Add(wal_sunk, u64_len_to_bytes(RecordStart(records, i))).sum
    /\ \A i \in 1..(n - 1) :
           Widen(records[i + 1].start_offset)
               = U64Add(Widen(records[i].start_offset),
                        u64_len_to_bytes(records[i].data_size + FIXED_BLOCK_LEN)).sum
    /\ Widen(wal.offset) = U64Add(wal_sunk, u64_len_to_bytes(Len(wal.writer))).sum

-----------------------------------------------------------------------------
(* Claims about init_new that runs to its end (SpecRecovery) *)

\* init_new of the KV store has returned, in the first process
KvStarted == engine = "kv" /\ proc.pc = "running" /\ crashes = 0

\* C14: when init_new of the KV store finds a non-empty well-formed WAL, on
\* return the in-memory map is collect(old WAL); the fresh WAL holds one PUT
\* record for each key of that map, with its value, and no other record; and
\* the fresh WAL read from the front gives the map the old one gives.
C14_StartupCompacts ==
    KvStarted =>
        LET fresh   == fs.wal[2]
            records == WalRecords(fresh)
        IN
        /\ collect(old_wal) = Returned(proc.store)
        /\ Len(records) = Cardinality(DOMAIN proc.store)
        /\ \A i \in 1..Len(records) :
               /\ records[i].act_type = PUT_ACT
               /\ bincode_deserialize(records[i].data).ok
               /\ bincode_deserialize(records[i].data).key \in DOMAIN proc.store
               /\ bincode_deserialize(records[i].data).value
                      = proc.store[bincode_deserialize(records[i].data).key]
        /\ \A k \in DOMAIN proc.store :
               \E i \in 1..Len(records) : bincode_deserialize(records[i].data).key = k
        /\ read_forward(fresh) = read_forward(old_wal)

\* the old WAL held a PUT of a key, its DELETE and a PUT of another key: the
\* fresh WAL holds the one live key
C14_Witness ==
    /\ KvStarted
    /\ Len(WalRecords(old_wal)) = 3
    /\ \E i \in 1..3 : WalRecords(old_wal)[i].act_type = DELETE_ACT
    /\ Len(WalRecords(fs.wal[2])) = 1
    /\ proc.store # EmptyMap
    /\ fs.tmp = None

-----------------------------------------------------------------------------
(* Claims about the Key-SortedMap store, one caller (SpecColl) *)

\* C15: pop_first on an outer key whose inner map is not empty returns
\* Some((s, v)) with s the smallest SearchKey of the inner map and v the value
\* stored under s, and s is no longer in the inner map; pop_last does the
\* same with the largest SearchKey; both return None on an absent outer key.
C15_PopStep ==
    (/\ engine = "map"
     /\ map_ops' = map_ops + 1
     /\ map_last'.op \in {"pop_first", "pop_last"})
    => LET key == map_last'.key IN
       IF key \notin DOMAIN map_store THEN map_last'.ret = None
       ELSE map_store[key] # EmptyMap =>
            \E s \in DOMAIN map_store[key] :
                /\ \A t \in DOMAIN map_store[key] :
                       IF map_last'.op = "pop_first" THEN SearchKeyCmp(s, t) <= 0
                       ELSE SearchKeyCmp(s, t) >= 0
                /\ map_last'.ret = Some(<<s, map_store[key][s]>>)
                /\ key \in DOMAIN map_store' => s \notin DOMAIN map_store'[key]

C15_PopReturnsEntry == [][C15_PopStep]_vars

-----------------------------------------------------------------------------
(* Claims about concurrent callers of the Key-SortedMap store (SpecConc) *)

\* every caller appends to the outer key, which no call has touched before
C16_Appenders ==
    /\ engine = "map"
    /\ map_last.op = "new_vec_based"
    /\ \A t \in Threads : th[t].op = "append_ordered_element"

\* once all calls have returned, the SearchKeys are USIZE 0 .. k-1 and each
\* call's element is under a SearchKey of its own
C16_AllKept ==
    (C16_Appenders /\ AllReturned) =>
        /\ ConcKey \in DOMAIN map_store
        /\ DOMAIN map_store[ConcKey] = {SearchKeyFromUsize(i) : i \in 0..(NThreads - 1)}
        /\ \A t \in Threads : map_store[ConcKey][th[t].val] = th[t].arg
        /\ \A t, u \in Threads : t # u => th[t].val # th[u].val

\* a call that begins when i-1 calls have returned takes USIZE(i-1)
C16_NextInOrder ==
    C16_Appenders =>
        \A t \in Threads :
            (th[t].pc = "entry" /\ th'[t].pc = "locked_log") =>
                th'[t].val = SearchKeyFromUsize(
                                 Cardinality({u \in Threads : th[u].pc = "done"}))

\* C16: append_ordered_element called k times, in any interleaving, on an
\* outer key that is absent at first leaves an inner map whose SearchKeys are
\* exactly USIZE 0 .. k-1, each holding one of the appended elements, none
\* lost; calls made one after the other store the i-th element at USIZE(i-1).
C16_AppendsInOrder == [](C16_AllKept) /\ [][C16_NextInOrder]_vars

\* two callers have appended different elements to the absent key and both
\* have returned
C16_Witness ==
    /\ C16_Appenders
    /\ AllReturned
    /\ \E t, u \in Threads : th[t].arg # th[u].arg
    /\ Cardinality(DOMAIN map_store[ConcKey]) = NThreads

-----------------------------------------------------------------------------
(* Claims about append_ordered_element, one caller (SpecColl) *)

\* the SearchKey the rule of C17 gives for an inner map
C17_Expected(m) ==
    IF /\ m # EmptyMap
       /\ Len(LastKey(m)) = 1
       /\ LastKey(m)[1][1] = TAG_USIZE
    THEN SearchKeyFromUsize(LastKey(m)[1][2] + 1)
    ELSE SearchKeyFromUsize(0)

C17_AppendStep ==
    (/\ engine = "map"
     /\ map_ops' = map_ops + 1
     /\ map_last'.op = "append_ordered_element")
    => LET key == map_last'.key
           m   == IF key \in DOMAIN map_store THEN map_store[key] ELSE EmptyMap
       IN  /\ map_last'.ret = <<"Unit">>
           /\ map_last'.search_key = C17_Expected(m)
           /\ key \in DOMAIN map_store'
           /\ DOMAIN map_store'[key] = DOMAIN m \cup {C17_Expected(m)}

\* C17: append_ordered_element inserts the new element at USIZE(n+1) exactly
\* when the largest SearchKey of the inner map is the single component
\* USIZE(n), and at USIZE(0) in every other case: outer key absent, inner map
\* empty, a largest SearchKey whose first component is not USIZE, or one of
\* more than one component or of none.
C17_AppendKeyRule == [][C17_AppendStep]_vars

-----------------------------------------------------------------------------
(* Claims about range_entries, one caller (SpecColl) *)

\* SearchKey s satisfies the lower bound lo and the upper bound hi
C18_Within(lo, hi, s) ==
    /\ lo[1] = "Included" => SearchKeyCmp(lo[2], s) <= 0
    /\ lo[1] = "Excluded" => SearchKeyCmp(lo[2], s) < 0
    /\ hi[1] = "Included" => SearchKeyCmp(s, hi[2]) <= 0
    /\ hi[1] = "Excluded" => SearchKeyCmp(s, hi[2]) < 0

C18_RangeStep ==
    (/\ engine = "map"
     /\ map_ops' = map_ops + 1
     /\ map_last'.op = "range_entries")
    => LET key == map_last'.key
           lo  == map_last'.search_key[1]
           hi  == map_last'.search_key[2]
           ret == map_last'.ret
       IN  /\ map_store' = map_store
           /\ map_wal' = map_wal
           /\ IF key \notin DOMAIN map_store THEN ret = None
              ELSE /\ ret[1] = "Some"
                   /\ {ret[2][i] : i \in 1..Len(ret[2])}
                          = {<<s, map_store[key][s]>> :
                                s \in {x \in DOMAIN map_store[key] : C18_Within(lo, hi, x)}}
                   /\ \A i \in 1..(Len(ret[2]) - 1) :
                          SearchKeyCmp(ret[2][i][1], ret[2][i + 1][1]) < 0

\* C18: range_entries(key, lo, hi) on a present outer key returns, for every
\* kind of bound and every pair of bound values (lo greater than hi and equal
\* excluded bounds too), exactly the entries whose SearchKey satisfies both
\* bounds, in strictly ascending SearchKey order, and leaves the store as it
\* was; on an absent outer key it returns None.
C18_RangeEntries == [][C18_RangeStep]_vars

-----------------------------------------------------------------------------
(* C19 *)

\* the variants in the order the statement lists them
C19_StatedOrder ==
    <<TAG_BOOL, TAG_I, TAG_U8, TAG_I16, TAG_U16, TAG_I32, TAG_U32, TAG_I64,
      TAG_U64, TAG_I128, TAG_U128, TAG_USIZE, TAG_CHAR, TAG_STR, TAG_BYTES>>

\* the same list with the platform-sized unsigned integer between the
\* unsigned 64-bit and the signed 128-bit integer
C19_UsizeAfterU64 ==
    <<TAG_BOOL, TAG_I, TAG_U8, TAG_I16, TAG_U16, TAG_I32, TAG_U32, TAG_I64,
      TAG_U64, TAG_USIZE, TAG_I128, TAG_U128, TAG_CHAR, TAG_STR, TAG_BYTES>>

C19_Rank(order, tag) == CHOOSE i \in 1..Len(order) : order[i] = tag

\* a sorts before b byte by byte: a proper prefix, or smaller at the first
\* position where they differ
C19_LexLess(a, b) ==
    \E i \in 1..Len(b) :
        /\ i <= Len(a) + 1
        /\ SubSeq(a, 1, i - 1) = SubSeq(b, 1, i - 1)
        /\ (i = Len(a) + 1 \/ a[i] < b[i])

C19_Less(order, a, b) ==
    IF a[1] # b[1] THEN C19_Rank(order, a[1]) < C19_Rank(order, b[1])
    ELSE IF a[1] \in {TAG_STR, TAG_BYTES} THEN C19_LexLess(a[2], b[2])
    ELSE a[2] < b[2]

C19_Agrees(order) ==
    key_cmp # <<>> =>
        LET a == key_cmp.self[1]
            b == key_cmp.other[1]
        IN  /\ (key_cmp.ordering = -1) = C19_Less(order, a, b)
            /\ (key_cmp.ordering = 1) = C19_Less(order, b, a)
            /\ (key_cmp.ordering = 0) = (a = b)

\* C19 as stated: two components of one variant compare by the natural order
\* of their values, and components of different variants compare by variant
\* in the order boolean < i8 < u8 < i16 < u16 < i32 < u32 < i64 < u64 < i128
\* < u128 < platform-sized unsigned < char < string < bytes, whatever their
\* values.
C19_StatedVariantOrder == C19_Agrees(C19_StatedOrder)

\* C19 amended: as stated, except that the platform-sized unsigned integer
\* comes between u64 and i128: ... < i64 < u64 < platform-sized unsigned <
\* i128 < u128 < char < string < bytes.
C19_VariantOrder == C19_Agrees(C19_UsizeAfterU64)

\* a platform-sized unsigned 1 was compared with a signed-128 0 and came first
C19_Witness ==
    /\ key_cmp # <<>>
    /\ key_cmp.self = <<<<TAG_USIZE, 1>>>>
    /\ key_cmp.other = <<<<TAG_I128, 0>>>>
    /\ key_cmp.ordering = -1

-----------------------------------------------------------------------------
(* C20 *)

\* contains_in_set(ConcKey, element) on the store as it is
C20_Contains(element) ==
    ConcKey \in DOMAIN set_store /\ element \in set_store[ConcKey]

\* C20: when the only calls on the set store are concurrent append(k, a),
\* append(k, b), ... (k absent or present at the start, no remove issued) and
\* all of them have returned, contains_in_set(k, .) is true of every appended
\* element.
C20_NoLostAppend ==
    (/\ engine = "set"
     /\ AllReturned
     /\ \A t \in Threads : th[t].op = "append")
    => \A t \in Threads : C20_Contains(th[t].arg)

-----------------------------------------------------------------------------
(* C21 *)

\* C21: when the calls on the set store are a remove_from_set(k, a) that
\* removed the last element of k (it wrote the DELETE record) and concurrent
\* append(k, b) calls, b other than a, then once all have returned the in-memory content of k
\* is what read_for_set yields for k from the WAL.
C21_SetMemoryEqualsReplay ==
    (/\ engine = "set"
     /\ AllReturned
     /\ \A t \in Threads : th[t].op \in {"remove_from_set", "append"}
     /\ \E t \in Threads : th[t].op = "remove_from_set" /\ th[t].records = 2
     /\ \E t \in Threads : th[t].op = "append"
     /\ \A t \in Threads, u \in Threads :
            th[t].op = "remove_from_set" /\ th[u].op = "append" => th[t].arg # th[u].arg)
    => LET replayed == read_for_set(set_wal.writer) IN
       /\ replayed.kind = "Ok"
       /\ KvGet(replayed.map, ConcKey) = KvGet(set_store, ConcKey)

-----------------------------------------------------------------------------
(* C22 *)

\* the call of thread t has returned or has panicked
C22_Ended(t) == th[t].pc \in {"done", "panicked", "wal_panicked"}

\* no thread takes the shard lock while it holds the WAL lock
C22_NoShardUnderWal ==
    \A t \in Threads : wal_lock = t => ~(shard # t /\ shard' = t)

\* a thread holds the WAL lock only inside a WAL event, and the shard lock
\* only between its store.entry and the drop of the Entry
C22_LocksHeldInside ==
    /\ \A t \in Threads : wal_lock = t => th[t].pc \in LogSteps
    /\ \A t \in Threads : shard = t => ~C22_Ended(t)

\* C22: no call takes the shard lock while it holds the WAL lock, locks are
\* held only inside a call, no reachable state has every remaining thread
\* blocked (some thread can step unless all calls have ended), and under fair
\* scheduling every call ends.
C22_DeadlockFree ==
    /\ [][C22_NoShardUnderWal]_vars
    /\ [](C22_LocksHeldInside)
    /\ []((\A t \in Threads : C22_Ended(t)) \/ (\E t \in Threads : CanStep(t)))
    /\ <>(\A t \in Threads : C22_Ended(t))

\* one thread holds the entry of the key and waits for the WAL lock, which
\* another thread holds
C22_Witness ==
    \E t \in Threads, u \in Threads :
        /\ shard = t
        /\ th[t].pc \in LogSteps
        /\ wal_lock = u
        /\ u # t

-----------------------------------------------------------------------------
(* C23 *)

\* the calls of the KV store that read, log and install under one Entry
C23_Entries == {"compute", "increment_or_init", "decrement"}

\* what a step means for the compute call of thread t
C23_Compute(t) ==
    LET cur == KvGet(kv_store, ConcKey)
        recs == WalRecords(kv_wal'.writer)
    IN  \* the read: the callback gets the value the key holds now, once
        /\ (th[t].pc = "entry" /\ th'[t].pc # "entry") =>
               /\ th'[t].val = ApplyFunc(th[t].arg, cur)
               /\ th'[t].pc = "locked_log"
               /\ kv_store' = kv_store
        \* between its read and its install no other such call reads or
        \* installs, and the value of the key stays what was read
        /\ (th[t].pc \in {"locked_log", "locked_install"} /\ th'[t].pc # "done") =>
               /\ \A u \in Threads \ {t} :
                      th[u].op \in C23_Entries =>
                          (th[u].pc = "entry" /\ th'[u].pc = "entry") \/ C22_Ended(u)
               /\ kv_store' = kv_store
               /\ th'[t].val = th[t].val
        \* the record: a PUT of the callback's result
        /\ (th[t].pc = "locked_log" /\ th'[t].pc = "locked_install") =>
               /\ recs[Len(recs)].act_type = PUT_ACT
               /\ bincode_deserialize(recs[Len(recs)].data) =
                      [ok |-> TRUE, key |-> ConcKey, value |-> th[t].val]
        \* the install: the callback's result of the value the key still holds
        /\ (th[t].pc = "locked_install" /\ th'[t].pc = "done") =>
               /\ th[t].records = 1
               /\ kv_store' = MapInsert(kv_store, ConcKey, ApplyFunc(th[t].arg, cur))
               /\ kv_wal' = kv_wal
        \* compute does nothing else
        /\ th[t].pc = "entry" => th'[t].pc \in {"entry", "locked_log"}
        /\ th[t].pc = "locked_log" => th'[t].pc \in {"locked_log", "locked_install", "wal_panicked"}
        /\ th[t].pc = "locked_install" => th'[t].pc \in {"locked_install", "done"}

C23_ComputeStep ==
    \A t \in Threads : (engine = "kv" /\ th[t].op = "compute") => C23_Compute(t)

\* C23: compute calls its callback once, with the value the key holds at
\* that moment (None when absent); until it has installed, no other compute,
\* increment_or_init or decrement call reads or installs and the value of the
\* key does not change; it writes a PUT record of the callback's result and
\* then installs that result.
C23_ComputeAtomic == [][C23_ComputeStep]_vars

\* every thread has called compute on the key, absent at the start, and has
\* returned: the first callback got None and each later one its
\* predecessor's result
C23_Witness ==
    /\ engine = "kv"
    /\ AllReturned
    /\ \A t \in Threads : th[t].op = "compute"
    /\ kv_last.op = "new_vec_based"
    /\ KvGet(kv_store, ConcKey) = Some(<<NThreads - 1>>)
    /\ Len(WalRecords(kv_wal.writer)) = NThreads

-----------------------------------------------------------------------------
(* C24, C25, C26 *)

\* the call just made on the KV store was increment_or_init or decrement
C24_NumberCall ==
    /\ kv_ops' = kv_ops + 1
    /\ kv_last'.op \in {"increment_or_init", "decrement"}

\* C24: increment_or_init and decrement on a key whose value exists but is
\* not eight bytes long return Err, resp. Some(Err), and leave the value of
\* the key, the rest of the map and the WAL as they were.
C24_Step ==
    (/\ C24_NumberCall
     /\ kv_last'.key \in DOMAIN kv_store
     /\ Len(kv_store[kv_last'.key]) # 8)
    => /\ kv_last'.ret = IF kv_last'.op = "decrement" THEN Some(<<"Err">>) ELSE <<"Err">>
       /\ kv_store' = kv_store
       /\ kv_wal' = kv_wal

C24_NotANumber == [][C24_Step]_vars

\* increment_or_init has just been refused on a key that holds one byte
C24_Witness ==
    /\ kv_last.op = "increment_or_init"
    /\ kv_last.ret = <<"Err">>
    /\ kv_last.key \in DOMAIN kv_store
    /\ Len(kv_store[kv_last.key]) = 1
    /\ kv_ops = 2

\* C25: decrement on an absent key returns None, does not create the key and
\* appends nothing to the WAL.
C25_Step ==
    (/\ kv_ops' = kv_ops + 1
     /\ kv_last'.op = "decrement"
     /\ kv_last'.key \notin DOMAIN kv_store)
    => /\ kv_last'.ret = None
       /\ kv_store' = kv_store
       /\ kv_wal' = kv_wal

C25_DecrementAbsent == [][C25_Step]_vars

\* decrement has just returned None on a key that was removed before, the
\* other key being present
C25_Witness ==
    /\ kv_last.op = "decrement"
    /\ kv_last.ret = None
    /\ kv_last.key \notin DOMAIN kv_store
    /\ kv_store # EmptyMap
    /\ kv_ops = 2

\* a < b for two u64 in little-endian bytes
C26_Less(a, b) ==
    \E i \in 1..8 : a[i] < b[i] /\ \A j \in (i + 1)..8 : a[j] = b[j]

\* n = c - delta, said through the addition: n + delta = c without overflow
C26_Difference(n, c, delta) ==
    LET back == U64Add(n, delta) IN back.sum = c /\ ~back.overflow

\* C26: decrement(key, delta) on a key that holds the eight-byte number c
\* stores and returns c - delta when delta < c and 0 when delta >= c, and the
\* number stored is what read_number(key) returns afterwards.
C26_Step ==
    (/\ kv_ops' = kv_ops + 1
     /\ kv_last'.op = "decrement"
     /\ kv_last'.key \in DOMAIN kv_store
     /\ Len(kv_store[kv_last'.key]) = 8)
    => LET key == kv_last'.key
           c == kv_store[key]
       IN  \E delta \in KvDecrements, n \in {kv_store'[key]} :
               /\ kv_last'.ret = Some(<<"Ok", n>>)
               /\ read_number(kv_store', key) = Some(<<"Ok", n>>)
               /\ IF C26_Less(delta, c) THEN C26_Difference(n, c, delta)
                  ELSE n = U64Zero
               /\ kv_wal' = store_put_event(kv_wal, key, n)

C26_DecrementSaturates == [][C26_Step]_vars

\* the key held 0 after a first decrement, and a second decrement has stored
\* and returned 0 again
C26_Witness ==
    /\ kv_ops = 3
    /\ kv_last.op = "decrement"
    /\ kv_last.ret = Some(<<"Ok", U64Zero>>)
    /\ DOMAIN kv_store = {kv_last.key}
    /\ LET recs == WalRecords(kv_wal.writer) IN
       /\ Len(recs) = 3
       /\ bincode_deserialize(recs[1].data).value = U64One
       /\ bincode_deserialize(recs[2].data).value = U64Zero
       /\ bincode_deserialize(recs[3].data).value = U64Zero


\* ---------------------------------------------------------------------
\* C27: compute, compute_if_present and compute_if_absent of the Key-Set
\* and Key-SortedMap stores never append to the WAL: the log (its bytes
\* and the writer's offset) is the same after the call as before it,
\* whatever the callback did to the container.
ComputeOps == {"compute", "compute_if_present", "compute_if_absent"}

C27_SetStep ==
    (engine = "set" /\ set_ops' = set_ops + 1 /\ set_last'.op \in ComputeOps)
    => set_wal' = set_wal

C27_MapStep ==
    (engine = "map" /\ map_ops' = map_ops + 1 /\ map_last'.op \in ComputeOps)
    => map_wal' = map_wal

C27_ComputeLogsNothing == [][C27_SetStep /\ C27_MapStep]_vars

\* compute(a, clear) emptied the container {1, 2} of a; the log still
\* ends with the three appends it started with
C27_Witness ==
    /\ engine = "set"
    /\ set_ops = 1
    /\ set_last.op = "compute"
    /\ set_last.callback = Some("clear")
    /\ CollKey \in DOMAIN set_store
    /\ set_store[CollKey] = {}
    /\ LET recs == WalRecords(set_wal.writer) IN
       /\ Len(recs) = 3
       /\ \A i \in 1..3 : recs[i].act_type = SET_APPEND_ACT

\* ---------------------------------------------------------------------
\* C28: compute_if_present on an absent key does not invoke the callback,
\* does not create the key and leaves the store unchanged; on a present
\* key it invokes the callback exactly once on the key's existing
\* container and changes no other outer key.
C28_SetStep ==
    (engine = "set" /\ set_ops' = set_ops + 1 /\ set_last'.op = "compute_if_present")
    => LET key == set_last'.key IN
       IF key \in DOMAIN set_store
       THEN /\ set_last'.callback[1] = "Some"
            /\ DOMAIN set_store' = DOMAIN set_store
            /\ set_store'[key] = ApplySetFunc(set_last'.callback[2], set_store[key])
            /\ \A k \in DOMAIN set_store \ {key} : set_store'[k] = set_store[k]
       ELSE /\ set_last'.callback = None
            /\ set_store' = set_store

C28_MapStep ==
    (engine = "map" /\ map_ops' = map_ops + 1 /\ map_last'.op = "compute_if_present")
    => LET key == map_last'.key IN
       IF key \in DOMAIN map_store
       THEN /\ map_last'.callback[1] = "Some"
            /\ DOMAIN map_store' = DOMAIN map_store
            /\ map_store'[key] = ApplyMapFunc(map_last'.callback[2], map_store[key])
            /\ \A k \in DOMAIN map_store \ {key} : map_store'[k] = map_store[k]
       ELSE /\ map_last'.callback = None
            /\ map_store' = map_store

C28_ComputeIfPresent == [][C28_SetStep /\ C28_MapStep]_vars

\* compute_if_present(a, toggle) took 1 out of the container {1, 2} of a
\* and left b alone
C28_Witness ==
    /\ engine = "set"
    /\ set_ops = 1
    /\ set_last.op = "compute_if_present"
    /\ set_last.callback = Some("toggle")
    /\ DOMAIN set_store = {CollKey, OtherKey}
    /\ set_store[CollKey] = {<<2>>}
    /\ set_store[OtherKey] = {<<1>>}

\* ---------------------------------------------------------------------
\* C29: compute_if_absent on a present key does not invoke the callback
\* and leaves the key's container unchanged; on an absent key it invokes
\* the callback exactly once on a fresh empty container and installs the
\* result under the key.
C29_SetStep ==
    (engine = "set" /\ set_ops' = set_ops + 1 /\ set_last'.op = "compute_if_absent")
    => LET key == set_last'.key IN
       IF key \in DOMAIN set_store
       THEN /\ set_last'.callback = None
            /\ set_store' = set_store
       ELSE /\ set_last'.callback[1] = "Some"
            /\ set_store' = MapInsert(set_store, key, ApplySetFunc(set_last'.callback[2], {}))

C29_MapStep ==
    (engine = "map" /\ map_ops' = map_ops + 1 /\ map_last'.op = "compute_if_absent")
    => LET key == map_last'.key IN
       IF key \in DOMAIN map_store
       THEN /\ map_last'.callback = None
            /\ map_store' = map_store
       ELSE /\ map_last'.callback[1] = "Some"
            /\ map_store' = MapInsert(map_store, key,
                                      ApplyMapFunc(map_last'.callback[2], EmptyMap))

C29_ComputeIfAbsent == [][C29_SetStep /\ C29_MapStep]_vars

\* compute_if_absent(a, toggle) on the empty map store installed the
\* container the callback filled
C29_Witness ==
    /\ engine = "map"
    /\ map_ops = 1
    /\ map_last.op = "compute_if_absent"
    /\ map_last.callback = Some("toggle")
    /\ DOMAIN map_store = {CollKey}
    /\ map_store[CollKey] = MapInsert(EmptyMap, SearchKeyFromUsize(0), <<120>>)
    /\ WalRecords(map_wal.writer) = <<>>


\* ---------------------------------------------------------------------
\* C30: remove_from_set_callback and remove_from_sorted_map_callback
\* invoke the caller's callback at most once, and exactly when this call
\* removed the outer key because its inner container became empty; the
\* callback receives the element (the SearchKey) passed to the call, and
\* it runs only after the DELETE record is in the WAL and the outer key is
\* gone from memory.
C30_CallbackOps == {"remove_from_set_callback", "remove_from_sorted_map_callback"}

\* The callback is due ("callback") from the step in which the call took
\* the outer key out, and that step comes after the call's DELETE record;
\* the shard is free by then, so another caller may put the key back
\* before the callback runs.
\* this step is the one in which thread t takes the outer key out
C30_Removes(t, before, after) ==
    /\ tick'[t] # tick[t]
    /\ ConcKey \in DOMAIN before
    /\ ConcKey \notin DOMAIN after

\* thread t has written its removal record and its DELETE record
C30_Deleted(t, store_wal) ==
    /\ th[t].records = 2
    /\ LET recs == WalRecords(store_wal.writer) IN
       \E i \in 1..Len(recs) : recs[i].act_type = DELETE_ACT /\ recs[i].data = ConcKey

C30_ThreadStep(t, before, after, empty, store_wal) ==
    th[t].op \in C30_CallbackOps =>
        /\ (th[t].pc # "callback" /\ th'[t].pc = "callback") <=> C30_Removes(t, before, after)
        /\ C30_Removes(t, before, after) => (before[ConcKey] = empty /\ C30_Deleted(t, store_wal))
        /\ th[t].pc = "callback" =>
               th'[t] \in {th[t], Returns(t, <<"Callback", th[t].arg>>)}
        /\ (th'[t].ret # th[t].ret /\ th'[t].ret[1] = "Callback") => th[t].pc = "callback"
        /\ th[t].pc = "done" => th'[t] = th[t]

C30_Step ==
    \A t \in Threads :
        /\ engine = "set" => C30_ThreadStep(t, set_store, set_store', {}, set_wal)
        /\ engine = "map" => C30_ThreadStep(t, map_store, map_store', EmptyMap, map_wal)

C30_CallbackOnKeyRemoval == [][C30_Step]_vars

\* remove_from_sorted_map_callback finished after its callback ran on the
\* SearchKey of the call; the key is gone and the log ends with its DELETE
C30_Witness ==
    /\ engine = "map"
    /\ \E t \in Threads :
           /\ th[t].op = "remove_from_sorted_map_callback"
           /\ th[t].pc = "done"
           /\ th[t].ret = <<"Callback", SearchKeyFromUsize(0)>>
           /\ th[t].records = 2
    /\ ConcKey \notin DOMAIN map_store
    /\ LET recs == WalRecords(map_wal.writer) IN
       /\ Len(recs) >= 2
       /\ recs[Len(recs)].act_type = DELETE_ACT
       /\ recs[Len(recs)].data = ConcKey


-----------------------------------------------------------------------------
(* Claims about concurrent callers of one WalStorage (SpecWalConc) *)

\* the caller whose place in the order of lock acquisitions is k
C31_Caller(k) == CHOOSE t \in Threads : th[t].turn = k

\* what the caller has handed to the writer so far
C31_Handed(t) ==
    IF th[t].pc = "write" THEN <<>>
    ELSE IF th[t].pc = "write_data" THEN RecordHead(th[t].action)
    ELSE RecordBytes(th[t].action)

\* the bytes of the first k callers, in the order of their turns
RECURSIVE C31_LogOf(_)
C31_LogOf(k) == IF k = 0 THEN <<>> ELSE C31_LogOf(k - 1) \o C31_Handed(C31_Caller(k))

C31_Writing(t) == th[t].pc \in {"write", "write_data", "increment_offset"}

C31_Whole ==
    /\ \A k \in 1..wal_ops : \E t \in Threads : th[t].turn = k
    /\ \A t \in Threads, u \in Threads : (th[t].turn > 0 /\ th[t].turn = th[u].turn) => t = u
    /\ wal.writer = C31_LogOf(wal_ops)
    /\ \A t \in Threads :
           /\ th[t].pc \in {"write", "write_data"} => th[t].turn = wal_ops
           /\ C31_Writing(t) => (wal_lock = t /\ th[t].action.start_offset = wal.offset)
    /\ (\A t \in Threads : ~C31_Writing(t)) =>
           /\ Len(WalRecords(wal.writer)) = wal_ops
           /\ \A k \in 1..wal_ops : WalRecords(wal.writer)[k] = th[C31_Caller(k)].action

C31_UnderLock ==
    \A t \in Threads :
        (~C31_Writing(t) /\ th'[t].pc = "write") =>
            /\ wal_lock = t
            /\ wal_lock' = t
            /\ th'[t].turn = wal_ops + 1
            /\ th'[t].action = CallerAction(th[t], wal.offset)

-----------------------------------------------------------------------------
(* Claims about the log of a running engine (SpecConc) *)

C32_Prefix(before, after) ==
    /\ Len(before) <= Len(after)
    /\ SubSeq(after, 1, Len(before)) = before

C32_Logs == <<kv_wal.writer, set_wal.writer, map_wal.writer>>

\* a step of a read-only call
C32_ReadStep == \E t \in DOMAIN th : th[t].pc = "read" /\ tick'[t] # tick[t]

C32_Step ==
    /\ C32_Prefix(kv_wal.writer, kv_wal'.writer)
    /\ C32_Prefix(set_wal.writer, set_wal'.writer)
    /\ C32_Prefix(map_wal.writer, map_wal'.writer)
    /\ C32_ReadStep => C32_Logs' = C32_Logs

\* C32: the WAL is append-only during a run: across every step of every
\* engine operation the log before the step is a byte-for-byte prefix of
\* the log after it (nothing is truncated, rewritten or reordered), and
\* read-only operations leave the log identical.
C32_AppendOnly == [][C32_Step]_vars

\* a remove_key call and a read have both returned on the Key-Set store:
\* the log is the initial record followed by the DELETE record
C32_Witness ==
    /\ engine = "set"
    /\ \E t \in Threads, u \in Threads :
           /\ th[t].op = "remove_key" /\ th[t].pc = "done"
           /\ th[u].op = "get_hashset" /\ th[u].pc = "done"
    /\ LET recs == WalRecords(set_wal.writer) IN
       /\ Len(recs) = 2
       /\ recs[1].act_type = SET_APPEND_ACT
       /\ recs[2].act_type = DELETE_ACT


\* get_element(ConcKey, search_key) on the Key-SortedMap store
C33_GetElement(search_key) ==
    IF ConcKey \in DOMAIN map_store THEN KvGet(map_store[ConcKey], search_key) ELSE None

\* C33: no lost sorted-map put: for every interleaving of concurrent
\* put(k, s1, v1) and put(k, s2, v2) calls with s1 # s2 (also when k is
\* absent at the start), once both have returned get_element(k, s1) is v1
\* and get_element(k, s2) is v2.
C33_NoLostPut ==
    (/\ engine = "map"
     /\ AllReturned
     /\ \A t \in Threads : th[t].op = "put"
     /\ \A t \in Threads, u \in Threads :
            t # u => th[t].arg.search_key # th[u].arg.search_key)
    => \A t \in Threads : C33_GetElement(th[t].arg.search_key) = Some(th[t].arg.val)


-----------------------------------------------------------------------------
(* Claims about the Key-Set store after a stopped run (SpecRecovery) *)

\* C34: when the earlier run stopped at any point of a remove_from_set call
\* (in particular after its SET_REMOVE record and before its DELETE
\* record), the store the next init_new returns maps no outer key to an
\* empty set, and its new WAL replays to exactly the in-memory state.
C34_SetAfterStoppedRemove ==
    (engine = "set" /\ proc.pc = "running" /\ crashes = 0)
    => /\ \A k \in DOMAIN proc.store : proc.store[k] # {}
       /\ read_for_set(fs.wal[2]) = Returned(proc.store)


-----------------------------------------------------------------------------
(* Claims about the backward scan (SpecWal) *)

\* every record of the bytes under the readers carries the CRC of its data
C35_AllValid ==
    \A i \in 1..Len(WalRecords(log.bytes)) :
        crc(WalRecords(log.bytes)[i].data) = WalRecords(log.bytes)[i].crc

\* the map is the replay of the records as they were written
C35_AsWritten == read_backward(log.bytes) = read_forward(wal.writer)

\* C35: the backward scan validates every record it relies on or skips: if
\* read_backward returns Ok(m) then every record of the log has a stored crc
\* equal to the CRC of its data, so m is the last-writer-wins replay of the
\* records as originally written; a corrupted superseded PUT or a corrupted
\* DELETE never makes read_backward return a map that resurrects a deleted
\* key or differs from read_forward of the uncorrupted log.
C35_BackwardValidates ==
    (/\ wal_sunk = U64Zero
     /\ KvLog
     /\ read_backward(log.bytes).kind = "Ok")
    => (C35_AllValid /\ C35_AsWritten)


\* the start_offset fields of the records the backward scan builds, in the
\* order it builds them, up to the first offset it builds twice
RECURSIVE C36_Visits(_, _, _)
C36_Visits(bytes, offset, seen) ==
    LET b == build_action(offset, bytes) IN
    IF offset \in seen \/ offset >= Len(bytes) \/ ~b.ok THEN <<>>
    ELSE IF b.action.start_offset = U32Zero THEN <<0>>
    ELSE LET p == prev_block_start_offset(u32_from_ne_bytes(b.action.start_offset), bytes) IN
         IF p.kind = "Panic" THEN <<u32_from_ne_bytes(b.action.start_offset)>>
         ELSE <<u32_from_ne_bytes(b.action.start_offset)>>
                  \o C36_Visits(bytes, p.val, seen \cup {offset})

C36_WellFormed ==
    /\ wal_sunk = U64Zero
    /\ log.damage = "none"
    /\ log.bytes # <<>>
    /\ KvLog

\* C36: read_backward terminates on every input byte slice: on a
\* well-formed log it visits each record exactly once, in strictly
\* decreasing start_offset order, and stops at the record whose
\* start_offset is 0; on a slice whose back-link or start_offset fields are
\* corrupted it still stops after finitely many steps rather than
\* revisiting records for ever.
C36_BackwardTerminates ==
    /\ read_backward(log.bytes).kind # "Diverges"
    /\ C36_WellFormed =>
           LET records == WalRecords(log.bytes)
               n       == Len(records)
               visits  == C36_Visits(log.bytes,
                              prev_block_start_offset(Len(log.bytes), log.bytes).val, {})
           IN  /\ read_backward(log.bytes).kind = "Ok"
               /\ Len(visits) = n
               /\ \A i \in 1..n : visits[i] = RecordStart(records, n + 1 - i)
               /\ visits[n] = 0


-----------------------------------------------------------------------------
(* Claims about append_ordered_element on mixed inner maps (SpecColl) *)

C37_AppendStep ==
    (/\ engine = "map"
     /\ map_ops' = map_ops + 1
     /\ map_last'.op = "append_ordered_element"
     /\ map_last'.ret = <<"Unit">>)
    => LET key == map_last'.key
           m   == IF key \in DOMAIN map_store THEN map_store[key] ELSE EmptyMap
       IN  /\ map_last'.search_key \notin DOMAIN m
           /\ key \in DOMAIN map_store'
           /\ Cardinality(DOMAIN map_store'[key]) = Cardinality(DOMAIN m) + 1
           /\ \A s \in DOMAIN m : s \in DOMAIN map_store'[key] /\ map_store'[key][s] = m[s]

\* C37: append_ordered_element never overwrites: on every reachable inner
\* map (also one that mixes USIZE keys with keys of other variants, or that
\* pop_first / pop_last shortened) a call that returns has inserted under a
\* SearchKey that was not in the inner map before, so the inner map grows
\* by exactly one entry and no stored value is replaced.
C37_AppendNeverOverwrites == [][C37_AppendStep]_vars


-----------------------------------------------------------------------------
(* Claims about the arithmetic of the counters and of the offset *)

C38_Step ==
    (/\ engine = "none"
     /\ kv_ops' = kv_ops + 1
     /\ kv_last'.op = "increment_or_init"
     /\ kv_last'.key \in DOMAIN kv_store
     /\ IsU64(kv_store[kv_last'.key]))
    => \E delta \in KvIncrements :
           LET key == kv_last'.key
               add == U64Add(kv_store[key], delta)
           IN  IF add.overflow
               THEN /\ kv_last'.ret[1] # "Ok"
                    /\ kv_store' = kv_store
                    /\ kv_wal' = kv_wal
               ELSE /\ kv_last'.ret = <<"Ok", add.sum>>
                    /\ kv_store' = MapInsert(kv_store, key, add.sum)
                    /\ kv_wal' = store_put_event(kv_wal, key, add.sum)

\* C38: increment_or_init never wraps: for a key holding the 8-byte number
\* c and any delta, a successful call returns and stores exactly c + delta
\* as a mathematical integer; when c + delta exceeds 2^64 - 1 the call does
\* not store a wrapped (smaller) value and does not write a PUT record with
\* a wrapped value to the WAL.
C38_IncrementNeverWraps == [][C38_Step]_vars


\* a < b on two u32 values
C39_Less(a, b) == ~U64Ge(Widen(a), Widen(b))

C39_Step ==
    wal_ops' = wal_ops + 1 =>
        LET new     == SubSeq(wal'.writer, Len(wal.writer) + 1, Len(wal'.writer))
            records == WalRecords(new)
        IN  /\ Len(records) = 1
            /\ records[1].data_size = Len(new) - FIXED_BLOCK_LEN
            /\ records[1].start_offset = wal.offset
            /\ Widen(wal'.offset)
                   = U64Add(Widen(wal.offset), u64_len_to_bytes(Len(new))).sum
            /\ C39_Less(wal.offset, wal'.offset)

C39_Increasing ==
    LET records == WalRecords(wal.writer) IN
    \A i \in 1..Len(records), j \in 1..Len(records) :
        i < j => C39_Less(records[i].start_offset, records[j].start_offset)

\* C39: the WAL offset arithmetic does not overflow or truncate: for every
\* record the writer emits, data_size is the true payload length and the
\* new offset is start_offset + data_size + 13 as mathematical integers;
\* the 32-bit offset counter never wraps to a smaller value, so a later
\* record never carries a start_offset less than or equal to an earlier
\* record's.
C39_OffsetNeverWraps == [][C39_Step]_vars /\ [](C39_Increasing)

====
